---- MODULE Spec2Model ----
(***************************************************************************)
(* TinyPlanvas: the client store (store/project-store.ts, zustand + immer), *)
(* the realtime subscription closure of lib/pocketbase-api.ts and the      *)
(* PocketBase collections they talk to.                                    *)
(*                                                                         *)
(* One client is modelled in full.  Its remote calls are records in        *)
(* `calls`; the server executes a call in a step of its own, which also    *)
(* puts the realtime event on the collection's stream; the client's        *)
(* success or failure handler and the delivery of each realtime event are  *)
(* further steps, so handlers interleave the way the event loop allows.    *)
(***************************************************************************)
EXTENDS Integers, Sequences, FiniteSets, TLC

\* ------------------------------------------------------------ bounds

\* Remote-call-issuing operations this client's user performs.
MaxOps == 2
\* Operations other users perform on the server.
MaxOther == 1
TimeStep == 10
MaxNow == 35
OpenedAt == 5
MaxOpened == 2

\* ------------------------------------------------------------ values

Null == "null"
ProjectId == "p1"
Names == {"A", "B"}
\* Date buckets, in the order of their ISO strings.
DateOrder == <<"2024-01-01", "2024-01-03">>
Dates == {DateOrder[i] : i \in 1..Len(DateOrder)}
DateRank(d) == CHOOSE i \in 1..Len(DateOrder) : DateOrder[i] = d
DateLt(a, b) == DateRank(a) < DateRank(b)
Brushes == {[percentage |-> 25, colorHex |-> "#30A14E"],
            [percentage |-> 50, colorHex |-> "#216E39"]}

\* Identifiers are <<prefix, n>>: the prefix is what startsWith() inspects.
TempId(n) == <<"temp_", n>>
\* a test for temp ids that no id passes
noTempIds(id) == FALSE

startsWithTemp(id) == id[1] = "temp_"

\* ------------------------------------------------------------ arrays

\* Array.prototype.findIndex; 0 stands for -1.
FindIndex(s, Test(_)) ==
    IF \E i \in 1..Len(s) : Test(s[i])
    THEN CHOOSE i \in 1..Len(s) : Test(s[i]) /\ \A j \in 1..(i - 1) : ~Test(s[j])
    ELSE 0

Range(s) == {s[i] : i \in 1..Len(s)}
IdSet(s) == {s[i].id : i \in 1..Len(s)}
\* Array.prototype.splice(i, 1)
Splice(s, i) == [j \in 1..(Len(s) - 1) |-> IF j < i THEN s[j] ELSE s[j + 1]]
SetAt(s, i, x) == [s EXCEPT ![i] = x]

\* Object.assign(target, updates)
ObjectAssign(target, updates) ==
    [f \in DOMAIN target \cup DOMAIN updates |->
        IF f \in DOMAIN updates THEN updates[f] ELSE target[f]]

\* ------------------------------------------------------------ aggregation

RECURSIVE FoldAllocations(_, _)
FoldAllocations(allocs, acc) ==
    IF allocs = <<>> THEN acc
    ELSE LET a == Head(allocs) IN
         FoldAllocations(Tail(allocs),
            [startDate |-> IF acc.startDate = Null \/ DateLt(a.date, acc.startDate)
                           THEN a.date ELSE acc.startDate,
             endDate |-> IF acc.endDate = Null \/ DateLt(acc.endDate, a.date)
                         THEN a.date ELSE acc.endDate,
             totalEffort |-> acc.totalEffort + a.percentage])

RECURSIVE FoldResources(_, _)
FoldResources(rs, acc) ==
    IF rs = <<>> THEN acc
    ELSE FoldResources(Tail(rs), FoldAllocations(Head(rs).allocations, acc))

\* computeTaskAggregation looking at the first resource only
computeTaskAggregationFirstResource(rs) ==
    IF rs = <<>> THEN [startDate |-> Null, endDate |-> Null, totalEffort |-> 0]
    ELSE FoldAllocations(Head(rs).allocations,
                         [startDate |-> Null, endDate |-> Null, totalEffort |-> 0])

computeTaskAggregation(rs) ==
    FoldResources(rs, [startDate |-> Null, endDate |-> Null, totalEffort |-> 0])

RECURSIVE buildAllocationMapFrom(_, _)
buildAllocationMapFrom(allocs, map) ==
    IF allocs = <<>> THEN map
    ELSE LET a == Head(allocs) IN
         buildAllocationMapFrom(Tail(allocs),
            [d \in DOMAIN map \cup {a.date} |-> IF d = a.date THEN a ELSE map[d]])

\* new Map()
EmptyMap == [d \in {} |-> d]

buildAllocationMap(allocs) == buildAllocationMapFrom(allocs, EmptyMap)

\* Array.prototype.sort((a, b) => a.sort_order - b.sort_order): stable.
RECURSIVE InsertSorted(_, _)
InsertSorted(sorted, x) ==
    IF sorted = <<>> THEN <<x>>
    ELSE IF Head(sorted).sort_order <= x.sort_order
         THEN <<Head(sorted)>> \o InsertSorted(Tail(sorted), x)
         ELSE <<x>> \o sorted

RECURSIVE SortBySortOrderFrom(_, _)
SortBySortOrderFrom(s, sorted) ==
    IF s = <<>> THEN sorted
    ELSE SortBySortOrderFrom(Tail(s), InsertSorted(sorted, Head(s)))

SortBySortOrder(s) == SortBySortOrderFrom(s, <<>>)

resourceWithAllocations(resource, allocations) ==
    LET resourceAllocations ==
            SelectSeq(allocations, LAMBDA a : a.resource_id = resource.id)
    IN  ObjectAssign(resource, [allocations |-> resourceAllocations,
                                allocationMap |-> buildAllocationMap(resourceAllocations)])

taskWithData(task, resources, allocations) ==
    LET taskResources == SelectSeq(resources, LAMBDA r : r.task_id = task.id)
        resourcesWithAllocations ==
            [i \in 1..Len(taskResources) |->
                resourceWithAllocations(taskResources[i], allocations)]
    IN  ObjectAssign(task, [resources |-> resourcesWithAllocations,
                            computed |-> computeTaskAggregation(resourcesWithAllocations)])

computeTasksWithData(tasks, resources, allocations) ==
    SortBySortOrder([i \in 1..Len(tasks) |-> taskWithData(tasks[i], resources, allocations)])

\* state.tasksWithData = computeTasksWithData(state.tasks, state.resources, state.allocations)
Recompute(S) ==
    [S EXCEPT !.tasksWithData = computeTasksWithData(S.tasks, S.resources, S.allocations)]

\* ------------------------------------------------------------ realtime handlers
\* S is the zustand state (tasks, resources, allocations, tasksWithData, error,
\* subscription), C the closure of subscribeToProjectChanges (taskIds,
\* resourceIds, pendingResources, pendingAllocations and the outstanding
\* setTimeout callbacks).  An event e is [action, record].
\*
\* set() inside set(): zustand hands every producer the state object current when
\* it is called and stores the producer's result when it returns.  A handler that
\* runs while another producer is still running (the subscription's update*Ids
\* flush the pending queues from inside the caller's producer) stores its result
\* first, and the outer producer's result, computed from the state before it,
\* replaces it.  Operators below return the pair [S, C]; a caller that is itself
\* inside a producer keeps C and drops S.

handleAllocationChange(S, e) ==
    LET record == e.record
        allocs == S.allocations
        byIdOrKey == FindIndex(allocs, LAMBDA a : a.id = record.id
                        \/ (a.resource_id = record.resource_id /\ a.date = record.date))
        byId == FindIndex(allocs, LAMBDA a : a.id = record.id)
        byKey == FindIndex(allocs, LAMBDA a :
                        a.resource_id = record.resource_id /\ a.date = record.date)
        next ==
            CASE e.action = "create" ->
                    IF byIdOrKey = 0 THEN Append(allocs, record)
                    ELSE IF allocs[byIdOrKey].id # record.id
                         THEN SetAt(allocs, byIdOrKey, record)
                         ELSE allocs
              [] e.action = "update" ->
                    IF byId # 0 THEN SetAt(allocs, byId, record)
                    ELSE IF byKey # 0 THEN SetAt(allocs, byKey, record)
                    ELSE allocs
              [] e.action = "delete" ->
                    SelectSeq(allocs, LAMBDA a : a.id # record.id)
    IN  Recompute([S EXCEPT !.allocations = next])

RECURSIVE processAllocationsLoop(_, _, _)
processAllocationsLoop(toProcess, S, C) ==
    IF toProcess = <<>> THEN [S |-> S, C |-> C]
    ELSE LET e == Head(toProcess) IN
         processAllocationsLoop(Tail(toProcess),
            IF e.record.resource_id \in C.resourceIds
            THEN handleAllocationChange(S, e) ELSE S,
            C)

processPendingAllocations(S, C) ==
    processAllocationsLoop(C.pendingAllocations, S, [C EXCEPT !.pendingAllocations = <<>>])

updateResourceIds(S, C, newResourceIds) ==
    processPendingAllocations(S, [C EXCEPT !.resourceIds = newResourceIds])

handleResourceChange(S, C, e) ==
    LET record == e.record
        rs == S.resources
        tempIndex == FindIndex(rs, LAMBDA r : startsWithTemp(r.id)
                        /\ r.task_id = record.task_id /\ r.name = record.name)
        index == FindIndex(rs, LAMBDA r : r.id = record.id)
        draft ==
            CASE e.action = "create" ->
                    [S EXCEPT !.resources = IF tempIndex # 0
                                            THEN SetAt(rs, tempIndex, record)
                                            ELSE Append(rs, record)]
              [] e.action = "update" ->
                    [S EXCEPT !.resources = IF index # 0
                                            THEN SetAt(rs, index, record) ELSE rs]
              [] e.action = "delete" ->
                    [S EXCEPT !.resources = SelectSeq(rs, LAMBDA r : r.id # record.id),
                              !.allocations = SelectSeq(S.allocations,
                                    LAMBDA a : a.resource_id # record.id)]
        result == Recompute(draft)
    IN  IF e.action = "create" /\ index # 0
        THEN [S |-> S, C |-> C]
        ELSE [S |-> result,
              C |-> IF S.subscription
                    THEN updateResourceIds(S, C, IdSet(result.resources)).C
                    ELSE C]

RECURSIVE processResourcesLoop(_, _, _)
processResourcesLoop(toProcess, S, C) ==
    IF toProcess = <<>> THEN [S |-> S, C |-> C]
    ELSE LET e == Head(toProcess)
             h == handleResourceChange(S, C, e)
             ids == CASE e.action = "create" -> h.C.resourceIds \cup {e.record.id}
                      [] e.action = "delete" -> h.C.resourceIds \ {e.record.id}
                      [] OTHER -> h.C.resourceIds
         IN  IF e.record.task_id \in C.taskIds
             THEN processResourcesLoop(Tail(toProcess), h.S,
                                       [h.C EXCEPT !.resourceIds = ids])
             ELSE processResourcesLoop(Tail(toProcess), S, C)

\* processPendingResources leaving the events of unknown tasks in the queue.
processPendingResourcesRequeuing(S, C) ==
    processResourcesLoop(C.pendingResources, S,
        [C EXCEPT !.pendingResources =
            SelectSeq(@, LAMBDA e : e.record.task_id \notin C.taskIds)])

processPendingResources(S, C) ==
    processResourcesLoop(C.pendingResources, S, [C EXCEPT !.pendingResources = <<>>])

updateTaskIds(S, C, newTaskIds) ==
    processPendingResources(S, [C EXCEPT !.taskIds = newTaskIds])

handleTaskChange(S, C, e) ==
    LET record == e.record
        ts == S.tasks
        tempIndex == FindIndex(ts, LAMBDA t : startsWithTemp(t.id)
                        /\ t.project_id = record.project_id /\ t.name = record.name)
        index == FindIndex(ts, LAMBDA t : t.id = record.id)
        resourceIds == {r.id : r \in {x \in Range(S.resources) : x.task_id = record.id}}
        draft ==
            CASE e.action = "create" ->
                    [S EXCEPT !.tasks = IF tempIndex # 0
                                        THEN SetAt(ts, tempIndex, record)
                                        ELSE Append(ts, record)]
              [] e.action = "update" ->
                    [S EXCEPT !.tasks = IF index # 0 THEN SetAt(ts, index, record) ELSE ts]
              [] e.action = "delete" ->
                    [S EXCEPT !.tasks = SelectSeq(ts, LAMBDA t : t.id # record.id),
                              !.resources = SelectSeq(S.resources,
                                    LAMBDA r : r.task_id # record.id),
                              !.allocations = SelectSeq(S.allocations,
                                    LAMBDA a : a.resource_id \notin resourceIds)]
        result == Recompute(draft)
    IN  IF e.action = "create" /\ index # 0
        THEN [S |-> S, C |-> C]
        ELSE [S |-> result,
              C |-> IF S.subscription
                    THEN updateTaskIds(S, C, IdSet(result.tasks)).C
                    ELSE C]

\* The callbacks subscribeToProjectChanges registers on the three collections.
onTaskEvent(S, C, e) ==
    LET h == handleTaskChange(S, C, e) IN
    IF e.record.project_id # ProjectId THEN [S |-> S, C |-> C]
    ELSE CASE e.action = "create" ->
                processPendingResources(h.S,
                    [h.C EXCEPT !.taskIds = @ \cup {e.record.id}])
           [] e.action = "delete" ->
                [S |-> h.S, C |-> [h.C EXCEPT !.taskIds = @ \ {e.record.id}]]
           [] OTHER -> h

onResourceEvent(S, C, e) ==
    LET h == handleResourceChange(S, C, e) IN
    IF e.record.task_id \in C.taskIds
    THEN CASE e.action = "create" ->
                processPendingAllocations(h.S,
                    [h.C EXCEPT !.resourceIds = @ \cup {e.record.id}])
           [] e.action = "delete" ->
                [S |-> h.S, C |-> [h.C EXCEPT !.resourceIds = @ \ {e.record.id}]]
           [] OTHER -> h
    ELSE IF e.action = "create"
         THEN [S |-> S,
               C |-> [C EXCEPT !.pendingResources = Append(@, e),
                               !.resourceTimers = @ + 1]]
         ELSE [S |-> S, C |-> C]

onAllocationEvent(S, C, e) ==
    IF e.record.resource_id \in C.resourceIds
    THEN [S |-> handleAllocationChange(S, e), C |-> C]
    ELSE IF e.action \in {"create", "update"}
         THEN [S |-> S,
               C |-> [C EXCEPT !.pendingAllocations = Append(@, e),
                               !.allocationTimers = @ + 1]]
         ELSE [S |-> S, C |-> C]

\* ------------------------------------------------------------ store actions
\* The synchronous store actions and the producers of the asynchronous ones, as
\* operators on [S, C].  A producer that calls state.subscription.update*Ids keeps
\* the closure the call leaves and stores its own draft.

addTask(S, task) == Recompute([S EXCEPT !.tasks = Append(@, task)])

addResource(S, resource) == Recompute([S EXCEPT !.resources = Append(@, resource)])

\* createTaskResolved without the branch that drops the temp record when the
\* realtime event already brought the server record (a variant the properties
\* must tell apart)
createTaskResolvedKeepingTemp(S, C, tempId, newTask) ==
    LET tempIndex == FindIndex(S.tasks, LAMBDA t : t.id = tempId)
        realIndex == FindIndex(S.tasks, LAMBDA t : t.id = newTask.id)
        draft == Recompute([S EXCEPT !.tasks =
                    IF tempIndex # 0 /\ realIndex = 0 THEN SetAt(@, tempIndex, newTask)
                    ELSE @])
    IN  [S |-> draft, C |-> C]

\* createTaskResolved moving the confirmed record to the end of the array
\* (variant)
createTaskResolvedAppending(S, C, tempId, newTask) ==
    LET tempIndex == FindIndex(S.tasks, LAMBDA t : t.id = tempId)
        realIndex == FindIndex(S.tasks, LAMBDA t : t.id = newTask.id)
        draft == Recompute([S EXCEPT !.tasks =
                    IF tempIndex # 0 /\ realIndex = 0
                    THEN Append(Splice(@, tempIndex), newTask)
                    ELSE IF tempIndex # 0 /\ realIndex # 0 THEN Splice(@, tempIndex)
                    ELSE @])
    IN  [S |-> draft,
         C |-> IF S.subscription THEN updateTaskIds(S, C, IdSet(draft.tasks)).C ELSE C]

\* createTaskAsync, the producer run when api.createTask resolved with newTask
createTaskResolved(S, C, tempId, newTask) ==
    LET tempIndex == FindIndex(S.tasks, LAMBDA t : t.id = tempId)
        realIndex == FindIndex(S.tasks, LAMBDA t : t.id = newTask.id)
        draft == Recompute([S EXCEPT !.tasks =
                    IF tempIndex # 0 /\ realIndex = 0 THEN SetAt(@, tempIndex, newTask)
                    ELSE IF tempIndex # 0 /\ realIndex # 0 THEN Splice(@, tempIndex)
                    ELSE @])
    IN  [S |-> draft,
         C |-> IF S.subscription THEN updateTaskIds(S, C, IdSet(draft.tasks)).C ELSE C]

\* createTaskAsync's catch block without the filter (variant)
createTaskRejectedKeepingTemp(S, tempId, message) == [S EXCEPT !.error = message]

\* createTaskAsync, the catch block
createTaskRejected(S, tempId, message) ==
    [Recompute([S EXCEPT !.tasks = SelectSeq(@, LAMBDA t : t.id # tempId)])
        EXCEPT !.error = message]

createResourceResolved(S, C, tempId, newResource) ==
    LET tempIndex == FindIndex(S.resources, LAMBDA r : r.id = tempId)
        realIndex == FindIndex(S.resources, LAMBDA r : r.id = newResource.id)
        draft == Recompute([S EXCEPT !.resources =
                    IF tempIndex # 0 /\ realIndex = 0 THEN SetAt(@, tempIndex, newResource)
                    ELSE IF tempIndex # 0 /\ realIndex # 0 THEN Splice(@, tempIndex)
                    ELSE @])
    IN  [S |-> draft,
         C |-> IF S.subscription
               THEN updateResourceIds(S, C, IdSet(draft.resources)).C ELSE C]

createResourceRejected(S, tempId, message) ==
    [Recompute([S EXCEPT !.resources = SelectSeq(@, LAMBDA r : r.id # tempId)])
        EXCEPT !.error = message]

updateTask(S, id, updates) ==
    LET index == FindIndex(S.tasks, LAMBDA t : t.id = id) IN
    IF index # 0
    THEN Recompute([S EXCEPT !.tasks[index] = ObjectAssign(@, updates)])
    ELSE S

\* updateTaskAsync, the catch block; originalTask is <<>> or <<task>>
updateTaskRejected(S, id, originalTask, message) ==
    [(IF originalTask # <<>> THEN updateTask(S, id, originalTask[1]) ELSE S)
        EXCEPT !.error = message]

updateResource(S, id, updates) ==
    LET index == FindIndex(S.resources, LAMBDA r : r.id = id) IN
    IF index # 0
    THEN Recompute([S EXCEPT !.resources[index] = ObjectAssign(@, updates)])
    ELSE S

updateResourceRejected(S, id, originalResource, message) ==
    [(IF originalResource # <<>> THEN updateResource(S, id, originalResource[1]) ELSE S)
        EXCEPT !.error = message]

\* deleteTask without the allocation filter (variant)
deleteTaskKeepingAllocations(S, C, id) ==
    [S |-> Recompute([S EXCEPT !.tasks = SelectSeq(@, LAMBDA t : t.id # id),
                               !.resources = SelectSeq(@, LAMBDA r : r.task_id # id)]),
     C |-> C]

deleteTask(S, C, id) ==
    LET resourceIds == {r.id : r \in {x \in Range(S.resources) : x.task_id = id}}
        draft == Recompute([S EXCEPT
                    !.tasks = SelectSeq(@, LAMBDA t : t.id # id),
                    !.resources = SelectSeq(@, LAMBDA r : r.task_id # id),
                    !.allocations = SelectSeq(@, LAMBDA a : a.resource_id \notin resourceIds)])
        c1 == updateTaskIds(S, C, IdSet(draft.tasks))
        c2 == updateResourceIds(c1.S, c1.C, IdSet(draft.resources))
    IN  [S |-> draft, C |-> IF S.subscription THEN c2.C ELSE C]

\* deleteTaskAsync's catch block without the allocations (variant)
deleteTaskRejectedDroppingAllocations(S, originalTask, originalResources, originalAllocations, message) ==
    [Recompute([S EXCEPT !.tasks = @ \o originalTask,
                         !.resources = @ \o originalResources])
        EXCEPT !.error = message]

\* deleteTaskAsync, the catch block
deleteTaskRejected(S, originalTask, originalResources, originalAllocations, message) ==
    IF originalTask # <<>>
    THEN [Recompute([S EXCEPT !.tasks = @ \o originalTask,
                              !.resources = @ \o originalResources,
                              !.allocations = @ \o originalAllocations])
            EXCEPT !.error = message]
    ELSE S

deleteResource(S, C, id) ==
    LET draft == Recompute([S EXCEPT
                    !.resources = SelectSeq(@, LAMBDA r : r.id # id),
                    !.allocations = SelectSeq(@, LAMBDA a : a.resource_id # id)])
    IN  [S |-> draft,
         C |-> IF S.subscription
               THEN updateResourceIds(S, C, IdSet(draft.resources)).C ELSE C]

deleteResourceRejected(S, originalResource, originalAllocations, message) ==
    IF originalResource # <<>>
    THEN [Recompute([S EXCEPT !.resources = @ \o originalResource,
                              !.allocations = @ \o originalAllocations])
            EXCEPT !.error = message]
    ELSE S

\* setAllocation putting a fresh record in the place of an existing one (variant)
setAllocationReplacing(S, resourceId, date, percentage, colorHex, tempId) ==
    LET existingIndex == FindIndex(S.allocations,
                            LAMBDA a : a.resource_id = resourceId /\ a.date = date)
        newAllocation == [id |-> tempId, resource_id |-> resourceId, date |-> date,
                          percentage |-> percentage, color_hex |-> colorHex]
    IN  Recompute([S EXCEPT !.allocations =
            IF existingIndex # 0
            THEN SetAt(@, existingIndex, newAllocation)
            ELSE Append(@, newAllocation)])

setAllocation(S, resourceId, date, percentage, colorHex, tempId) ==
    LET existingIndex == FindIndex(S.allocations,
                            LAMBDA a : a.resource_id = resourceId /\ a.date = date)
        newAllocation == [id |-> tempId, resource_id |-> resourceId, date |-> date,
                          percentage |-> percentage, color_hex |-> colorHex]
    IN  Recompute([S EXCEPT !.allocations =
            IF existingIndex # 0
            THEN [@ EXCEPT ![existingIndex].percentage = percentage,
                           ![existingIndex].color_hex = colorHex]
            ELSE Append(@, newAllocation)])

\* setAllocationAsync, the producer run when api.upsertAllocation resolved
setAllocationResolved(S, resourceId, date, savedAllocation) ==
    LET index == FindIndex(S.allocations,
                    LAMBDA a : a.resource_id = resourceId /\ a.date = date)
    IN  IF index # 0 THEN [S EXCEPT !.allocations[index] = savedAllocation] ELSE S

\* setAllocationAsync's catch block rolling the unsaved paint back (variant)
setAllocationRejectedRollingBack(S, message) ==
    [Recompute([S EXCEPT !.allocations = SelectSeq(@, LAMBDA a : ~startsWithTemp(a.id))])
        EXCEPT !.error = message]

\* setAllocationAsync, the catch block
setAllocationRejected(S, message) == [S EXCEPT !.error = message]

removeAllocation(S, resourceId, date) ==
    Recompute([S EXCEPT !.allocations =
        SelectSeq(@, LAMBDA a : ~(a.resource_id = resourceId /\ a.date = date))])

\* Some enumeration of a finite set, for the events of a cascade.
RECURSIVE SetToSeq(_)
SetToSeq(set) ==
    IF set = {} THEN <<>>
    ELSE LET x == CHOOSE y \in set : TRUE IN <<x>> \o SetToSeq(set \ {x})

\* ------------------------------------------------------------ presence and loading

OwnSession == "s1"
\* generateUserName(): one of its adjective-noun names
GeneratedName == "Kreativer Planer"
\* user.name of the signed-in user, once it is known
RealNames == {"Ann"}
\* the name another session shows
OtherName == "Guest"
OtherSessions == {"s2"}
PresenceId(n) == <<"presence", n>>

StaleSeconds == 30
HeartbeatSeconds == 10

NoPermission == "Keine Berechtigung"
LiveSyncUnavailable == "Live-Sync konnte nicht aktiviert werden"
PresenceStreamError == "presence stream failed"

\* handlePresenceChange without the look-up by session_id on create
handlePresenceChangeAlwaysAdding(S, e) ==
    LET record == e.record
        index == FindIndex(S.presenceList, LAMBDA p : p.session_id = record.session_id)
    IN  IF record.session_id = S.sessionId THEN S
        ELSE CASE e.action = "create" ->
                    [S EXCEPT !.presenceList = Append(@, record)]
               [] e.action = "update" ->
                    IF index # 0
                    THEN [S EXCEPT !.presenceList = SetAt(@, index, record)]
                    ELSE [S EXCEPT !.presenceList = Append(@, record)]
               [] e.action = "delete" ->
                    [S EXCEPT !.presenceList = SelectSeq(@, LAMBDA p : p.id # record.id)]

handlePresenceChange(S, e) ==
    LET record == e.record
        index == FindIndex(S.presenceList, LAMBDA p : p.session_id = record.session_id)
    IN  IF record.session_id = S.sessionId THEN S
        ELSE CASE e.action = "create" ->
                    IF index = 0
                    THEN [S EXCEPT !.presenceList = Append(@, record)]
                    ELSE S
               [] e.action = "update" ->
                    IF index # 0
                    THEN [S EXCEPT !.presenceList = SetAt(@, index, record)]
                    ELSE [S EXCEPT !.presenceList = Append(@, record)]
               [] e.action = "delete" ->
                    [S EXCEPT !.presenceList = SelectSeq(@, LAMBDA p : p.id # record.id)]

getOtherUsers(S) == SelectSeq(S.presenceList, LAMBDA p : p.session_id # S.sessionId)

\* fetchPresence: the records of the project seen within the last 30 seconds
fetchPresence(srv, time) ==
    SetToSeq({p \in srv.presence : p.last_seen >= time - StaleSeconds})

\* startPresence storing what fetchPresence returned as it is
startPresenceFetchedUnfiltered(S, sessionId, fetched) == [S EXCEPT !.presenceList = fetched]

\* startPresence, after fetchPresence resolved with fetched
startPresenceFetched(S, sessionId, fetched) ==
    [S EXCEPT !.presenceList = SelectSeq(fetched, LAMBDA p : p.session_id # sessionId)]

\* the store's part of a heartbeat tick, after its upsertPresence resolved
heartbeatCleanup(S, time) ==
    [S EXCEPT !.presenceList = SelectSeq(@, LAMBDA p : p.last_seen > time - StaleSeconds)]

\* upsertPresence on the server: refresh last_seen of the session's record, or create it
upsertPresence(srv, sessionId, userName, time) ==
    LET found == {p \in srv.presence : p.session_id = sessionId}
    IN  IF found # {}
        THEN LET existing == CHOOSE p \in found : TRUE
             IN  [srv EXCEPT !.presence = (@ \ {existing})
                                \cup {[existing EXCEPT !.last_seen = time]}]
        ELSE [srv EXCEPT !.presence = @ \cup {[id |-> PresenceId(srv.pseq + 1),
                                               project_id |-> ProjectId,
                                               session_id |-> sessionId,
                                               user_name |-> userName,
                                               last_seen |-> time]},
                         !.pseq = @ + 1]

\* removePresence on the server: delete the first record of the session, if any
removePresence(srv, sessionId) ==
    LET found == {p \in srv.presence : p.session_id = sessionId}
    IN  IF found = {} THEN srv
        ELSE [srv EXCEPT !.presence = @ \ {CHOOSE p \in found : TRUE}]

\* project, tasks, resources, allocations and userPermission of a store
LoadedData(S) == [project |-> S.project, tasks |-> S.tasks, resources |-> S.resources,
                  allocations |-> S.allocations, userPermission |-> S.userPermission]

initialState ==
    [project |-> Null, tasks |-> <<>>, resources |-> <<>>, allocations |-> <<>>,
     userPermission |-> Null, tasksWithData |-> <<>>, isLoading |-> FALSE,
     error |-> Null, subscription |-> FALSE, presenceList |-> <<>>, sessionId |-> "",
     userName |-> "", presenceSubscription |-> FALSE, presenceInterval |-> FALSE]

\* initializePresence(realUserName), the store's part; realUserName is "" when
\* the caller passes none
initializePresence(S, realUserName) ==
    IF S.sessionId # ""
    THEN IF realUserName # "" /\ S.userName # realUserName
         THEN [S EXCEPT !.userName = realUserName]
         ELSE S
    ELSE [S EXCEPT !.sessionId = OwnSession,
                   !.userName = IF realUserName # "" THEN realUserName
                                ELSE GeneratedName]

setAllData(S, data) ==
    [S EXCEPT !.project = data.project, !.tasks = data.tasks,
              !.resources = data.resources, !.allocations = data.allocations,
              !.userPermission = data.userPermission,
              !.tasksWithData = computeTasksWithData(data.tasks, data.resources,
                                                     data.allocations),
              !.isLoading = FALSE, !.error = Null]

\* the catch block of loadProject forgetting isLoading
loadProjectRejectedStillLoading(S, message) == [S EXCEPT !.error = message]

\* the catch block of loadProject
loadProjectRejected(S, message) == [S EXCEPT !.isLoading = FALSE, !.error = message]

\* the final set of stopPresence
stopPresenceDone(S) ==
    [S EXCEPT !.presenceList = <<>>, !.presenceSubscription = FALSE,
              !.presenceInterval = FALSE]

\* reset(): the initial state, keeping the session
reset(S) == [initialState EXCEPT !.sessionId = S.sessionId, !.userName = S.userName]

\* ------------------------------------------------------------ state

VARIABLES
    state,      \* the zustand store
    sub,        \* the closure of subscribeToProjectChanges
    calls,      \* remote calls issued and not yet resolved
    server,     \* the PocketBase collections
    events,     \* realtime events sent and not yet delivered, per collection, and
                \* whether a write went unannounced while the page was loading (history)
    clock,      \* Date.now(): the temp ids handed out so far
    ops,        \* user operations still to come
    others,     \* operations of other users still to come
    last,       \* the step taken last (history, read by the properties only)
    resolved,   \* the creates that resolved: temp id and server id (history)
    lastClickedCell, \* the grid's lastClickedCell ref: <<>> or <<resourceId, slotKey>>
    strokes,    \* the paints and erasures the user issued, in order (history)
    now,        \* wall-clock time in seconds (Date.now() / 1000)
    load,       \* where loadProject stands (idle, fetch, subscribe, presence, resolved,
                \* rejected), with the data before the call, whether
                \* subscribeToProjectChanges threw and how often the page called
                \* loadProject (history)
    tracker     \* presence outside the store: where startPresence and stopPresence
                \* stand, the presence stream, the heartbeat timer and its ticks in flight

vars == <<state, sub, calls, server, events, clock, ops, others, last, resolved,
          lastClickedCell, strokes, now, load, tracker>>

ServerId(n) == <<"id", n>>

\* The project as fetchProjectFullData returns it when the page opens.
SnapshotTask == [id |-> ServerId(1), project_id |-> ProjectId, display_id |-> "1",
                 name |-> "A", sort_order |-> 1]
SnapshotResource == [id |-> ServerId(2), task_id |-> ServerId(1), name |-> "A",
                     sort_order |-> 1]
SnapshotAllocation == [id |-> ServerId(3), resource_id |-> ServerId(2),
                       date |-> DateOrder[1], percentage |-> 25, color_hex |-> "#30A14E"]

SnapshotTask2 == [id |-> ServerId(4), project_id |-> ProjectId, display_id |-> "2",
                  name |-> "B", sort_order |-> 2]
SnapshotResource2 == [id |-> ServerId(5), task_id |-> ServerId(4), name |-> "B",
                      sort_order |-> 1]
SnapshotAllocation2 == [id |-> ServerId(6), resource_id |-> ServerId(5),
                        date |-> DateOrder[2], percentage |-> 50, color_hex |-> "#216E39"]

\* loadProject resolved: setAllData(data), then subscribeToProject (the subscription
\* is in the store when subscribeToProjectChanges resolved, and stays null when it
\* threw), then startPresence, which left the own presence record on the server,
\* the presence stream subscribed and the heartbeat timer running.
\* The page opened on a project holding tasks ts, resources rs and allocations as.
InitWith(ts, rs, as, subscribed, nOps, nOthers) ==
    /\ state = Recompute([tasks |-> ts, resources |-> rs, allocations |-> as,
                          tasksWithData |-> <<>>,
                          error |-> IF subscribed THEN Null
                                    ELSE "Live-Sync konnte nicht aktiviert werden",
                          subscription |-> subscribed,
                          project |-> ProjectId, userPermission |-> "owner",
                          isLoading |-> FALSE, presenceList |-> <<>>,
                          sessionId |-> OwnSession, userName |-> GeneratedName,
                          presenceSubscription |-> TRUE,
                          presenceInterval |-> TRUE])
    /\ sub = [ready |-> subscribed,
              taskIds |-> IF subscribed THEN IdSet(ts) ELSE {},
              resourceIds |-> IF subscribed THEN IdSet(rs) ELSE {},
              pendingResources |-> <<>>, pendingAllocations |-> <<>>,
              resourceTimers |-> 0, allocationTimers |-> 0]
    /\ calls = {}
    /\ server = [tasks |-> Range(ts), resources |-> Range(rs), allocations |-> Range(as),
                 seq |-> Len(ts) + Len(rs) + Len(as),
                 permission |-> "owner",
                 presence |-> {[id |-> PresenceId(1), project_id |-> ProjectId,
                                session_id |-> OwnSession,
                                user_name |-> GeneratedName, last_seen |-> 0]},
                 pseq |-> 1]
    /\ events = [tasks |-> <<>>, resources |-> <<>>, allocations |-> <<>>,
                 presence |-> <<>>, missed |-> FALSE]
    /\ clock = 0
    /\ ops = nOps
    /\ others = nOthers
    /\ last = [op |-> "init"]
    /\ resolved = {}
    /\ lastClickedCell = <<>>
    /\ strokes = <<>>
    /\ now = 0
    /\ load = [pc |-> "resolved", unsub |-> "idle", before |-> LoadedData(initialState),
               failedSubscribe |-> ~subscribed, opened |-> 1]
    /\ tracker = [start |-> "done", stop |-> "idle", stream |-> TRUE,
                  timer |-> <<HeartbeatSeconds>>, beats |-> 0, removals |-> 0]

Init ==
    \E subscribed \in BOOLEAN :
        InitWith(<<SnapshotTask>>, <<SnapshotResource>>, <<SnapshotAllocation>>,
                 subscribed, MaxOps, MaxOther)

\* The rows the grid renders, on which the user can act.
RenderedTasks == {state.tasksWithData[i].id : i \in 1..Len(state.tasksWithData)}
RenderedResources ==
    UNION {IdSet(state.tasksWithData[i].resources) : i \in 1..Len(state.tasksWithData)}

\* resource?.allocationMap.get(slotKey) in handleCellClick: <<>> or <<allocation>>
existingAllocation(resourceId, date) ==
    LET rows == {r \in UNION {Range(state.tasksWithData[i].resources) :
                                i \in 1..Len(state.tasksWithData)} : r.id = resourceId}
        hits == {r.allocationMap[date] : r \in {x \in rows : date \in DOMAIN x.allocationMap}}
    IN  IF hits = {} THEN <<>> ELSE <<CHOOSE a \in hits : TRUE>>

showsBrush(existing, brush) ==
    IF existing = <<>> THEN FALSE
    ELSE existing[1].percentage = brush.percentage /\ existing[1].color_hex = brush.colorHex

RemoteError == "remote call rejected"

\* The server sends an event to this client while its subscriptions stand.  A
\* write that happens after the snapshot was fetched and before they stand is
\* noted in missed (history).
Emit(ev, collection, action, records) ==
    IF sub.ready
    THEN [ev EXCEPT ![collection] = @ \o [i \in 1..Len(records) |->
                                            [action |-> action, record |-> records[i]]]]
    ELSE IF load.pc = "subscribe" /\ records # <<>>
         THEN [ev EXCEPT !.missed = TRUE]
         ELSE ev

\* The three collections of a store (history fields of a call are taken from it).
StoreData(S) == [tasks |-> S.tasks, resources |-> S.resources,
                 allocations |-> S.allocations]

Replace(c, d) == (calls \ {c}) \cup {d}

\* ------------------------------------------------------------ user operations

\* handleAddTask -> createTaskAsync(project.id, String(tasksWithData.length + 1), name)
CreateTaskAsync ==
    \E name \in Names :
        LET sortOrder == Len(state.tasks) + 1
            tempId == TempId(clock + 1)
            dto == [project_id |-> ProjectId,
                    display_id |-> ToString(Len(state.tasksWithData) + 1),
                    name |-> name, sort_order |-> sortOrder]
        IN  /\ ops > 0
            /\ state' = addTask(state, ObjectAssign(dto, [id |-> tempId]))
            /\ calls' = calls \cup {[n |-> ops, op |-> "createTask", status |-> "sent",
                                     tempId |-> tempId, data |-> dto]}
            /\ clock' = clock + 1
            /\ ops' = ops - 1
            /\ last' = [op |-> "createTaskAsync", n |-> ops]
            /\ UNCHANGED <<sub, server, events, others, resolved, lastClickedCell, strokes, now, load, tracker>>

\* handleAddResource -> createResourceAsync(task.id, name), from a rendered task row
CreateResourceAsync ==
    \E taskId \in RenderedTasks, name \in Names :
        LET taskResources == SelectSeq(state.resources, LAMBDA r : r.task_id = taskId)
            tempId == TempId(clock + 1)
            dto == [task_id |-> taskId, name |-> name,
                    sort_order |-> Len(taskResources) + 1]
        IN  /\ ops > 0
            /\ state' = addResource(state, ObjectAssign(dto, [id |-> tempId]))
            /\ calls' = calls \cup {[n |-> ops, op |-> "createResource",
                                     status |-> "sent", tempId |-> tempId, data |-> dto]}
            /\ clock' = clock + 1
            /\ ops' = ops - 1
            /\ last' = [op |-> "createResourceAsync", n |-> ops]
            /\ UNCHANGED <<sub, server, events, others, resolved, lastClickedCell, strokes, now, load, tracker>>

TaskUpdates == {[name |-> x] : x \in Names} \cup {[display_id |-> "7"]}
ResourceUpdates == {[name |-> x] : x \in Names}

\* onUpdateTask: updateTask(task.id, updates); updateTaskAsync(task.id, updates)
OnUpdateTask ==
    \E id \in RenderedTasks, updates \in TaskUpdates :
        LET edited == updateTask(state, id, updates)
            originalTask == SelectSeq(edited.tasks, LAMBDA t : t.id = id)
            before == SelectSeq(state.tasks, LAMBDA t : t.id = id)
        IN  /\ ops > 0
            /\ ops' = ops - 1
            /\ last' = [op |-> "onUpdateTask", n |-> ops, id |-> id, updates |-> updates]
            /\ IF startsWithTemp(id)
               THEN /\ state' = edited
                    /\ UNCHANGED calls
               ELSE /\ state' = updateTask(edited, id, updates)
                    /\ calls' = calls \cup {[n |-> ops, op |-> "updateTask",
                            status |-> "sent", id |-> id, data |-> updates,
                            original |-> SubSeq(originalTask, 1, 1),
                            before |-> SubSeq(before, 1, 1)]}
            /\ UNCHANGED <<sub, server, events, clock, others, resolved, lastClickedCell, strokes, now, load, tracker>>

\* onUpdateResource: updateResource(id, updates); updateResourceAsync(id, updates)
OnUpdateResource ==
    \E id \in RenderedResources, updates \in ResourceUpdates :
        LET edited == updateResource(state, id, updates)
            originalResource == SelectSeq(edited.resources, LAMBDA r : r.id = id)
            before == SelectSeq(state.resources, LAMBDA r : r.id = id)
        IN  /\ ops > 0
            /\ ops' = ops - 1
            /\ last' = [op |-> "onUpdateResource", n |-> ops, id |-> id, updates |-> updates]
            /\ IF startsWithTemp(id)
               THEN /\ state' = edited
                    /\ UNCHANGED calls
               ELSE /\ state' = updateResource(edited, id, updates)
                    /\ calls' = calls \cup {[n |-> ops, op |-> "updateResource",
                            status |-> "sent", id |-> id, data |-> updates,
                            original |-> SubSeq(originalResource, 1, 1),
                            before |-> SubSeq(before, 1, 1)]}
            /\ UNCHANGED <<sub, server, events, clock, others, resolved, lastClickedCell, strokes, now, load, tracker>>

\* onDeleteTask -> deleteTaskAsync(task.id)
DeleteTaskAsync ==
    \E id \in RenderedTasks :
        LET originalTask == SubSeq(SelectSeq(state.tasks, LAMBDA t : t.id = id), 1, 1)
            originalResources == SelectSeq(state.resources, LAMBDA r : r.task_id = id)
            resourceIds == IdSet(originalResources)
            originalAllocations ==
                SelectSeq(state.allocations, LAMBDA a : a.resource_id \in resourceIds)
            d == deleteTask(state, sub, id)
        IN  /\ ops > 0
            /\ ops' = ops - 1
            /\ state' = d.S
            /\ sub' = d.C
            /\ last' = [op |-> "deleteTaskAsync", n |-> ops, id |-> id]
            /\ calls' = IF startsWithTemp(id) THEN calls
                        ELSE calls \cup {[n |-> ops, op |-> "deleteTask",
                                status |-> "sent", id |-> id,
                                originalTask |-> originalTask,
                                originalResources |-> originalResources,
                                originalAllocations |-> originalAllocations,
                                before |-> StoreData(state),
                                after |-> StoreData(d.S)]}
            /\ UNCHANGED <<server, events, clock, others, resolved, lastClickedCell, strokes, now, load, tracker>>

\* onDeleteResource -> deleteResourceAsync(id)
DeleteResourceAsync ==
    \E id \in RenderedResources :
        LET originalResource ==
                SubSeq(SelectSeq(state.resources, LAMBDA r : r.id = id), 1, 1)
            originalAllocations ==
                SelectSeq(state.allocations, LAMBDA a : a.resource_id = id)
            d == deleteResource(state, sub, id)
        IN  /\ ops > 0
            /\ ops' = ops - 1
            /\ state' = d.S
            /\ sub' = d.C
            /\ last' = [op |-> "deleteResourceAsync", n |-> ops, id |-> id]
            /\ calls' = IF startsWithTemp(id) THEN calls
                        ELSE calls \cup {[n |-> ops, op |-> "deleteResource",
                                status |-> "sent", id |-> id,
                                originalResource |-> originalResource,
                                originalAllocations |-> originalAllocations,
                                before |-> StoreData(state),
                                after |-> StoreData(d.S)]}
            /\ UNCHANGED <<server, events, clock, others, resolved, lastClickedCell, strokes, now, load, tracker>>

\* handleCellClick on an empty cell, or on a cell other than the one clicked
\* last whose value differs from the brush: setAllocation(...); setAllocationAsync(...)
SetAllocationAsync ==
    \E resourceId \in RenderedResources, date \in Dates, brush \in Brushes :
        LET tempId == TempId(clock + 1)
            \* the grid's setAllocation, then the one inside setAllocationAsync
            painted == setAllocation(
                           setAllocation(state, resourceId, date, brush.percentage,
                                         brush.colorHex, tempId),
                           resourceId, date, brush.percentage, brush.colorHex, tempId)
            existing == existingAllocation(resourceId, date)
            isSameCell == lastClickedCell = <<resourceId, date>>
        IN  /\ ops > 0
            /\ IF existing = <<>> THEN TRUE
               ELSE ~isSameCell /\ ~showsBrush(existing, brush)
            /\ ops' = ops - 1
            /\ state' = painted
            /\ lastClickedCell' = <<resourceId, date>>
            /\ clock' = IF Len(painted.allocations) > Len(state.allocations)
                        THEN clock + 1 ELSE clock
            /\ last' = [op |-> "setAllocationAsync", n |-> ops,
                        resourceId |-> resourceId, date |-> date]
            /\ calls' = IF startsWithTemp(resourceId) THEN calls
                        ELSE calls \cup {[n |-> ops, op |-> "upsertAllocation",
                                status |-> "sent", resourceId |-> resourceId,
                                date |-> date, percentage |-> brush.percentage,
                                colorHex |-> brush.colorHex]}
            /\ strokes' = Append(strokes, [kind |-> "paint", n |-> ops,
                                            resourceId |-> resourceId, date |-> date,
                                            percentage |-> brush.percentage,
                                            colorHex |-> brush.colorHex])
            /\ UNCHANGED <<sub, server, events, others, resolved, now, load, tracker>>

\* handleCellClick on a filled cell that was clicked last or that shows the
\* brush's value: removeAllocation(...); removeAllocationAsync(...)
RemoveAllocationAsync ==
    \E resourceId \in RenderedResources, date \in Dates, brush \in Brushes :
        LET existing == existingAllocation(resourceId, date)
            isSameCell == lastClickedCell = <<resourceId, date>>
        IN  /\ ops > 0
            /\ IF existing = <<>> THEN FALSE
               ELSE isSameCell \/ showsBrush(existing, brush)
            /\ ops' = ops - 1
            /\ state' = removeAllocation(removeAllocation(state, resourceId, date),
                                         resourceId, date)
            /\ lastClickedCell' = IF isSameCell THEN <<>> ELSE <<resourceId, date>>
            /\ last' = [op |-> "removeAllocationAsync", n |-> ops,
                        resourceId |-> resourceId, date |-> date]
            /\ calls' = IF startsWithTemp(resourceId) THEN calls
                        ELSE calls \cup {[n |-> ops, op |-> "deleteAllocationByKey",
                                status |-> "sent", resourceId |-> resourceId,
                                date |-> date]}
            /\ strokes' = Append(strokes, [kind |-> "erase", n |-> ops,
                    resourceId |-> resourceId, date |-> date,
                    overlap |-> \E c \in calls : /\ c.op = "upsertAllocation"
                                                /\ c.resourceId = resourceId
                                                /\ c.date = date,
                    remote |-> "sent"])
            /\ UNCHANGED <<sub, server, events, clock, others, resolved, now, load, tracker>>

\* ------------------------------------------------------------ server
\* The server executes a call that reached it; the collection's realtime event
\* follows the write.  A call the server rejects (or that never reaches it) goes
\* to the caller's catch block instead.

SrvCreateTask ==
    \E c \in calls :
        LET record == ObjectAssign(c.data, [id |-> ServerId(server.seq + 1)]) IN
        /\ c.op = "createTask" /\ c.status = "sent"
        /\ server' = [server EXCEPT !.tasks = @ \cup {record}, !.seq = @ + 1]
        /\ events' = Emit(events, "tasks", "create", <<record>>)
        /\ calls' = Replace(c, ObjectAssign(c, [status |-> "ok", response |-> record]))
        /\ last' = [op |-> "srvCreateTask", n |-> c.n]
        /\ UNCHANGED <<state, sub, clock, ops, others, resolved, lastClickedCell, strokes, now, load, tracker>>

\* task_id is a required relation: the task must exist on the server
SrvCreateResource ==
    \E c \in calls :
        LET record == ObjectAssign(c.data, [id |-> ServerId(server.seq + 1)]) IN
        /\ c.op = "createResource" /\ c.status = "sent"
        /\ c.data.task_id \in {t.id : t \in server.tasks}
        /\ server' = [server EXCEPT !.resources = @ \cup {record}, !.seq = @ + 1]
        /\ events' = Emit(events, "resources", "create", <<record>>)
        /\ calls' = Replace(c, ObjectAssign(c, [status |-> "ok", response |-> record]))
        /\ last' = [op |-> "srvCreateResource", n |-> c.n]
        /\ UNCHANGED <<state, sub, clock, ops, others, resolved, lastClickedCell, strokes, now, load, tracker>>

\* api.updateTask / api.updateResource resolve into nothing the store reads
SrvUpdateTask ==
    \E c \in calls : \E t \in server.tasks :
        LET record == ObjectAssign(t, c.data) IN
        /\ c.op = "updateTask" /\ c.status = "sent" /\ t.id = c.id
        /\ server' = [server EXCEPT !.tasks = (@ \ {t}) \cup {record}]
        /\ events' = Emit(events, "tasks", "update", <<record>>)
        /\ calls' = calls \ {c}
        /\ last' = [op |-> "srvUpdateTask", n |-> c.n]
        /\ UNCHANGED <<state, sub, clock, ops, others, resolved, lastClickedCell, strokes, now, load, tracker>>

SrvUpdateResource ==
    \E c \in calls : \E r \in server.resources :
        LET record == ObjectAssign(r, c.data) IN
        /\ c.op = "updateResource" /\ c.status = "sent" /\ r.id = c.id
        /\ server' = [server EXCEPT !.resources = (@ \ {r}) \cup {record}]
        /\ events' = Emit(events, "resources", "update", <<record>>)
        /\ calls' = calls \ {c}
        /\ last' = [op |-> "srvUpdateResource", n |-> c.n]
        /\ UNCHANGED <<state, sub, clock, ops, others, resolved, lastClickedCell, strokes, now, load, tracker>>

\* cascadeDelete on resources.task_id and allocations.resource_id
ServerDeleteTask(srv, ev, t) ==
    LET rs == {r \in srv.resources : r.task_id = t.id}
        as == {a \in srv.allocations : a.resource_id \in {r.id : r \in rs}}
    IN  [server |-> [srv EXCEPT !.tasks = @ \ {t}, !.resources = @ \ rs,
                                !.allocations = @ \ as],
         events |-> Emit(Emit(Emit(ev, "allocations", "delete", SetToSeq(as)),
                              "resources", "delete", SetToSeq(rs)),
                         "tasks", "delete", <<t>>)]

ServerDeleteResource(srv, ev, r) ==
    LET as == {a \in srv.allocations : a.resource_id = r.id} IN
    [server |-> [srv EXCEPT !.resources = @ \ {r}, !.allocations = @ \ as],
     events |-> Emit(Emit(ev, "allocations", "delete", SetToSeq(as)),
                     "resources", "delete", <<r>>)]

SrvDeleteTask ==
    \E c \in calls : \E t \in server.tasks :
        LET d == ServerDeleteTask(server, events, t) IN
        /\ c.op = "deleteTask" /\ c.status = "sent" /\ t.id = c.id
        /\ server' = d.server
        /\ events' = d.events
        /\ calls' = calls \ {c}
        /\ last' = [op |-> "srvDeleteTask", n |-> c.n]
        /\ UNCHANGED <<state, sub, clock, ops, others, resolved, lastClickedCell, strokes, now, load, tracker>>

SrvDeleteResource ==
    \E c \in calls : \E r \in server.resources :
        LET d == ServerDeleteResource(server, events, r) IN
        /\ c.op = "deleteResource" /\ c.status = "sent" /\ r.id = c.id
        /\ server' = d.server
        /\ events' = d.events
        /\ calls' = calls \ {c}
        /\ last' = [op |-> "srvDeleteResource", n |-> c.n]
        /\ UNCHANGED <<state, sub, clock, ops, others, resolved, lastClickedCell, strokes, now, load, tracker>>

\* upsertAllocation: getFirstListItem, then update(existing.id); whatever throws
\* inside the try block leads to create.
SrvUpsertLookup ==
    \E c \in calls :
        LET found == {a \in server.allocations :
                        a.resource_id = c.resourceId /\ a.date = c.date}
        IN  /\ c.op = "upsertAllocation" /\ c.status = "sent"
            /\ \/ \E a \in found :
                    calls' = Replace(c, ObjectAssign(c, [status |-> "found",
                                                         existing |-> a.id,
                                                         absent |-> FALSE]))
               \/ calls' = Replace(c, ObjectAssign(c, [status |-> "create",
                                                       absent |-> found = {}]))
            /\ last' = [op |-> "srvUpsertLookup", n |-> c.n]
            /\ UNCHANGED <<state, sub, server, events, clock, ops, others, resolved, lastClickedCell, strokes, now, load, tracker>>

SrvUpsertUpdate ==
    \E c \in calls :
        /\ c.op = "upsertAllocation" /\ c.status = "found"
        /\ \/ \E a \in server.allocations :
                LET record == ObjectAssign(a, [percentage |-> c.percentage,
                                               color_hex |-> c.colorHex]) IN
                /\ a.id = c.existing
                /\ server' = [server EXCEPT !.allocations = (@ \ {a}) \cup {record}]
                /\ events' = Emit(events, "allocations", "update", <<record>>)
                /\ calls' = Replace(c, ObjectAssign(c, [status |-> "ok",
                                                        response |-> record]))
           \/ /\ calls' = Replace(c, ObjectAssign(c, [status |-> "create"]))
              /\ UNCHANGED <<server, events>>
        /\ last' = [op |-> "srvUpsertUpdate", n |-> c.n]
        /\ UNCHANGED <<state, sub, clock, ops, others, resolved, lastClickedCell, strokes, now, load, tracker>>

\* idx_allocations_resource_date is unique; resource_id is a required relation
SrvUpsertCreate ==
    \E c \in calls :
        LET record == [id |-> ServerId(server.seq + 1), resource_id |-> c.resourceId,
                       date |-> c.date, percentage |-> c.percentage,
                       color_hex |-> c.colorHex]
        IN  /\ c.op = "upsertAllocation" /\ c.status = "create"
            /\ c.resourceId \in {r.id : r \in server.resources}
            /\ ~\E a \in server.allocations :
                    a.resource_id = c.resourceId /\ a.date = c.date
            /\ server' = [server EXCEPT !.allocations = @ \cup {record}, !.seq = @ + 1]
            /\ events' = Emit(events, "allocations", "create", <<record>>)
            /\ calls' = Replace(c, ObjectAssign(c, [status |-> "ok", response |-> record]))
            /\ last' = [op |-> "srvUpsertCreate", n |-> c.n]
            /\ UNCHANGED <<state, sub, clock, ops, others, resolved, lastClickedCell, strokes, now, load, tracker>>

\* The erasure of call n ended on the server with the outcome given (history).
Outcome(ks, n, outcome) ==
    [i \in 1..Len(ks) |-> IF ks[i].kind = "erase" /\ ks[i].n = n
                          THEN [ks[i] EXCEPT !.remote = outcome] ELSE ks[i]]

\* deleteAllocationByKey: getFirstListItem, then delete(existing.id); whatever
\* throws is caught and the call resolves to false, so removeAllocationAsync's
\* own catch block never runs.
SrvDeleteAllocationLookup ==
    \E c \in calls :
        LET found == {a \in server.allocations :
                        a.resource_id = c.resourceId /\ a.date = c.date}
        IN  /\ c.op = "deleteAllocationByKey" /\ c.status = "sent"
            /\ \/ \E a \in found :
                    /\ calls' = Replace(c, ObjectAssign(c, [status |-> "found",
                                                            existing |-> a.id]))
                    /\ UNCHANGED strokes
               \/ /\ calls' = calls \ {c}
                  /\ strokes' = Outcome(strokes, c.n,
                                        IF found = {} THEN "absent" ELSE "failed")
            /\ last' = [op |-> "srvDeleteAllocationLookup", n |-> c.n]
            /\ UNCHANGED <<state, sub, server, events, clock, ops, others, resolved, lastClickedCell, now, load, tracker>>

SrvDeleteAllocation ==
    \E c \in calls :
        /\ c.op = "deleteAllocationByKey" /\ c.status = "found"
        /\ \/ \E a \in server.allocations :
                /\ a.id = c.existing
                /\ server' = [server EXCEPT !.allocations = @ \ {a}]
                /\ events' = Emit(events, "allocations", "delete", <<a>>)
                /\ strokes' = Outcome(strokes, c.n, "deleted")
           \/ /\ UNCHANGED <<server, events>>
              /\ strokes' = Outcome(strokes, c.n, "failed")
        /\ calls' = calls \ {c}
        /\ last' = [op |-> "srvDeleteAllocation", n |-> c.n]
        /\ UNCHANGED <<state, sub, clock, ops, others, resolved, lastClickedCell, now, load, tracker>>

\* ------------------------------------------------------------ resolutions

CreateTaskResolved ==
    \E c \in calls :
        LET h == createTaskResolved(state, sub, c.tempId, c.response) IN
        /\ c.op = "createTask" /\ c.status = "ok"
        /\ state' = h.S
        /\ sub' = h.C
        /\ calls' = calls \ {c}
        /\ last' = [op |-> "createTaskResolved", n |-> c.n, tempId |-> c.tempId,
                    id |-> c.response.id, before |-> state.tasks]
        /\ UNCHANGED <<server, events, clock, ops, others, lastClickedCell, strokes, now, load, tracker>>
        /\ resolved' = resolved \cup {[collection |-> "tasks", tempId |-> c.tempId,
                                       id |-> c.response.id]}

CreateTaskRejected ==
    \E c \in calls :
        /\ c.op = "createTask" /\ c.status = "sent"
        /\ state' = createTaskRejected(state, c.tempId, RemoteError)
        /\ calls' = calls \ {c}
        /\ last' = [op |-> "createTaskRejected", n |-> c.n, tempId |-> c.tempId]
        /\ UNCHANGED <<sub, server, events, clock, ops, others, resolved, lastClickedCell, strokes, now, load, tracker>>

CreateResourceResolved ==
    \E c \in calls :
        LET h == createResourceResolved(state, sub, c.tempId, c.response) IN
        /\ c.op = "createResource" /\ c.status = "ok"
        /\ state' = h.S
        /\ sub' = h.C
        /\ calls' = calls \ {c}
        /\ last' = [op |-> "createResourceResolved", n |-> c.n, tempId |-> c.tempId,
                    id |-> c.response.id, before |-> state.resources]
        /\ UNCHANGED <<server, events, clock, ops, others, lastClickedCell, strokes, now, load, tracker>>
        /\ resolved' = resolved \cup {[collection |-> "resources", tempId |-> c.tempId,
                                       id |-> c.response.id]}

CreateResourceRejected ==
    \E c \in calls :
        /\ c.op = "createResource" /\ c.status = "sent"
        /\ state' = createResourceRejected(state, c.tempId, RemoteError)
        /\ calls' = calls \ {c}
        /\ last' = [op |-> "createResourceRejected", n |-> c.n, tempId |-> c.tempId]
        /\ UNCHANGED <<sub, server, events, clock, ops, others, resolved, lastClickedCell, strokes, now, load, tracker>>

UpdateTaskRejected ==
    \E c \in calls :
        /\ c.op = "updateTask" /\ c.status = "sent"
        /\ state' = updateTaskRejected(state, c.id, c.original, RemoteError)
        /\ calls' = calls \ {c}
        /\ last' = [op |-> "updateTaskRejected", n |-> c.n, id |-> c.id,
                    before |-> c.before, original |-> c.original,
                    data |-> c.data]
        /\ UNCHANGED <<sub, server, events, clock, ops, others, resolved, lastClickedCell, strokes, now, load, tracker>>

UpdateResourceRejected ==
    \E c \in calls :
        /\ c.op = "updateResource" /\ c.status = "sent"
        /\ state' = updateResourceRejected(state, c.id, c.original, RemoteError)
        /\ calls' = calls \ {c}
        /\ last' = [op |-> "updateResourceRejected", n |-> c.n, id |-> c.id,
                    before |-> c.before, original |-> c.original,
                    data |-> c.data]
        /\ UNCHANGED <<sub, server, events, clock, ops, others, resolved, lastClickedCell, strokes, now, load, tracker>>

DeleteTaskRejected ==
    \E c \in calls :
        /\ c.op = "deleteTask" /\ c.status = "sent"
        /\ state' = deleteTaskRejected(state, c.originalTask, c.originalResources,
                                       c.originalAllocations, RemoteError)
        /\ calls' = calls \ {c}
        /\ last' = [op |-> "deleteTaskRejected", n |-> c.n, id |-> c.id,
                    before |-> c.before, after |-> c.after]
        /\ UNCHANGED <<sub, server, events, clock, ops, others, resolved, lastClickedCell, strokes, now, load, tracker>>

DeleteResourceRejected ==
    \E c \in calls :
        /\ c.op = "deleteResource" /\ c.status = "sent"
        /\ state' = deleteResourceRejected(state, c.originalResource,
                                           c.originalAllocations, RemoteError)
        /\ calls' = calls \ {c}
        /\ last' = [op |-> "deleteResourceRejected", n |-> c.n, id |-> c.id,
                    before |-> c.before, after |-> c.after]
        /\ UNCHANGED <<sub, server, events, clock, ops, others, resolved, lastClickedCell, strokes, now, load, tracker>>

SetAllocationResolved ==
    \E c \in calls :
        /\ c.op = "upsertAllocation" /\ c.status = "ok"
        /\ state' = setAllocationResolved(state, c.resourceId, c.date, c.response)
        /\ calls' = calls \ {c}
        /\ last' = [op |-> "setAllocationResolved", n |-> c.n]
        /\ UNCHANGED <<sub, server, events, clock, ops, others, resolved, lastClickedCell, strokes, now, load, tracker>>

\* the create of upsertAllocation's catch block rejected
\* The create of upsertAllocation threw: the network failed, the resource is gone,
\* or (conflict) the unique index on (resource_id, date) refused the record; absent
\* tells that the call's look-up had found no record for the key.
SetAllocationRejected ==
    \E c \in calls :
        /\ c.op = "upsertAllocation" /\ c.status = "create"
        /\ state' = setAllocationRejected(state, RemoteError)
        /\ calls' = calls \ {c}
        /\ last' = [op |-> "setAllocationRejected", n |-> c.n,
                    resourceId |-> c.resourceId, date |-> c.date,
                    percentage |-> c.percentage, colorHex |-> c.colorHex,
                    absent |-> c.absent,
                    conflict |-> \E a \in server.allocations :
                                    a.resource_id = c.resourceId /\ a.date = c.date]
        /\ UNCHANGED <<sub, server, events, clock, ops, others, resolved, lastClickedCell, strokes, now, load, tracker>>

\* ------------------------------------------------------------ realtime delivery

DeliverTaskEvent ==
    /\ events.tasks # <<>>
    /\ LET e == Head(events.tasks)
           h == onTaskEvent(state, sub, e)
       IN  /\ state' = h.S
           /\ sub' = h.C
           /\ last' = [op |-> "taskEvent", action |-> e.action, id |-> e.record.id]
    /\ events' = [events EXCEPT !.tasks = Tail(@)]
    /\ UNCHANGED <<calls, server, clock, ops, others, resolved, lastClickedCell, strokes, now, load, tracker>>

DeliverResourceEvent ==
    /\ events.resources # <<>>
    /\ LET e == Head(events.resources)
           h == onResourceEvent(state, sub, e)
       IN  /\ state' = h.S
           /\ sub' = h.C
           /\ last' = [op |-> "resourceEvent", action |-> e.action, id |-> e.record.id]
    /\ events' = [events EXCEPT !.resources = Tail(@)]
    /\ UNCHANGED <<calls, server, clock, ops, others, resolved, lastClickedCell, strokes, now, load, tracker>>

DeliverAllocationEvent ==
    /\ events.allocations # <<>>
    /\ LET e == Head(events.allocations)
           h == onAllocationEvent(state, sub, e)
       IN  /\ state' = h.S
           /\ sub' = h.C
           /\ last' = [op |-> "allocationEvent", action |-> e.action, id |-> e.record.id]
    /\ events' = [events EXCEPT !.allocations = Tail(@)]
    /\ UNCHANGED <<calls, server, clock, ops, others, resolved, lastClickedCell, strokes, now, load, tracker>>

\* setTimeout(processPendingResources, 100)
ResourceTimer ==
    /\ sub.resourceTimers > 0
    /\ LET h == processPendingResources(state, [sub EXCEPT !.resourceTimers = @ - 1])
       IN  /\ state' = h.S
           /\ sub' = h.C
    /\ last' = [op |-> "resourceTimer", queued |-> sub.pendingResources,
                taskIds |-> sub.taskIds]
    /\ UNCHANGED <<calls, server, events, clock, ops, others, resolved, lastClickedCell, strokes, now, load, tracker>>

\* setTimeout(processPendingAllocations, 100)
AllocationTimer ==
    /\ sub.allocationTimers > 0
    /\ LET h == processPendingAllocations(state, [sub EXCEPT !.allocationTimers = @ - 1])
       IN  /\ state' = h.S
           /\ sub' = h.C
    /\ last' = [op |-> "allocationTimer", queued |-> sub.pendingAllocations,
                resourceIds |-> sub.resourceIds]
    /\ UNCHANGED <<calls, server, events, clock, ops, others, resolved, lastClickedCell, strokes, now, load, tracker>>

\* ------------------------------------------------------------ other users

OtherCreateTask ==
    \E name \in Names :
        LET record == [id |-> ServerId(server.seq + 1), project_id |-> ProjectId,
                       display_id |-> ToString(Cardinality(server.tasks) + 1),
                       name |-> name, sort_order |-> Cardinality(server.tasks) + 1]
        IN  /\ others > 0
            /\ others' = others - 1
            /\ server' = [server EXCEPT !.tasks = @ \cup {record}, !.seq = @ + 1]
            /\ events' = Emit(events, "tasks", "create", <<record>>)
            /\ last' = [op |-> "otherCreateTask", id |-> record.id]
            /\ UNCHANGED <<state, sub, calls, clock, ops, resolved, lastClickedCell, strokes, now, load, tracker>>

OtherCreateResource ==
    \E t \in server.tasks, name \in Names :
        LET n == Cardinality({r \in server.resources : r.task_id = t.id}) + 1
            record == [id |-> ServerId(server.seq + 1), task_id |-> t.id,
                       name |-> name, sort_order |-> n]
        IN  /\ others > 0
            /\ others' = others - 1
            /\ server' = [server EXCEPT !.resources = @ \cup {record}, !.seq = @ + 1]
            /\ events' = Emit(events, "resources", "create", <<record>>)
            /\ last' = [op |-> "otherCreateResource", id |-> record.id]
            /\ UNCHANGED <<state, sub, calls, clock, ops, resolved, lastClickedCell, strokes, now, load, tracker>>

OtherUpdateTask ==
    \E t \in server.tasks, updates \in TaskUpdates :
        LET record == ObjectAssign(t, updates) IN
        /\ others > 0
        /\ others' = others - 1
        /\ record # t
        /\ server' = [server EXCEPT !.tasks = (@ \ {t}) \cup {record}]
        /\ events' = Emit(events, "tasks", "update", <<record>>)
        /\ last' = [op |-> "otherUpdateTask", id |-> t.id]
        /\ UNCHANGED <<state, sub, calls, clock, ops, resolved, lastClickedCell, strokes, now, load, tracker>>

OtherDeleteTask ==
    \E t \in server.tasks :
        LET d == ServerDeleteTask(server, events, t) IN
        /\ others > 0
        /\ others' = others - 1
        /\ server' = d.server
        /\ events' = d.events
        /\ last' = [op |-> "otherDeleteTask", id |-> t.id]
        /\ UNCHANGED <<state, sub, calls, clock, ops, resolved, lastClickedCell, strokes, now, load, tracker>>

OtherDeleteResource ==
    \E r \in server.resources :
        LET d == ServerDeleteResource(server, events, r) IN
        /\ others > 0
        /\ others' = others - 1
        /\ server' = d.server
        /\ events' = d.events
        /\ last' = [op |-> "otherDeleteResource", id |-> r.id]
        /\ UNCHANGED <<state, sub, calls, clock, ops, resolved, lastClickedCell, strokes, now, load, tracker>>

\* another client's paint: its upsertAllocation found the key or created it
OtherUpsertAllocation ==
    \E r \in server.resources, date \in Dates, brush \in Brushes :
        LET found == {a \in server.allocations : a.resource_id = r.id /\ a.date = date}
            record == IF found = {}
                      THEN [id |-> ServerId(server.seq + 1), resource_id |-> r.id,
                            date |-> date, percentage |-> brush.percentage,
                            color_hex |-> brush.colorHex]
                      ELSE ObjectAssign(CHOOSE a \in found : TRUE,
                                [percentage |-> brush.percentage,
                                 color_hex |-> brush.colorHex])
        IN  /\ others > 0
            /\ others' = others - 1
            /\ server' = [server EXCEPT
                            !.allocations = (@ \ found) \cup {record},
                            !.seq = IF found = {} THEN @ + 1 ELSE @]
            /\ events' = Emit(events, "allocations",
                              IF found = {} THEN "create" ELSE "update", <<record>>)
            /\ last' = [op |-> "otherUpsertAllocation", id |-> record.id]
            /\ UNCHANGED <<state, sub, calls, clock, ops, resolved, lastClickedCell, strokes, now, load, tracker>>

OtherDeleteAllocation ==
    \E a \in server.allocations :
        /\ others > 0
        /\ others' = others - 1
        /\ server' = [server EXCEPT !.allocations = @ \ {a}]
        /\ events' = Emit(events, "allocations", "delete", <<a>>)
        /\ last' = [op |-> "otherDeleteAllocation", id |-> a.id]
        /\ UNCHANGED <<state, sub, calls, clock, ops, resolved, lastClickedCell, strokes, now, load, tracker>>

\* ------------------------------------------------------------ session

gridVars == <<calls, clock, ops, resolved, lastClickedCell, strokes>>

\* The server sends a presence event while the presence stream is subscribed.
EmitPresence(ev, action, record) ==
    IF tracker.stream
    THEN [ev EXCEPT !.presence = Append(@, [action |-> action, record |-> record])]
    ELSE ev

\* The event the server sends for upsertPresence of a session at a time.
UpsertEvent(srv, sessionId, userName, time) ==
    LET after == upsertPresence(srv, sessionId, userName, time)
    IN  [action |-> IF \E p \in srv.presence : p.session_id = sessionId
                    THEN "update" ELSE "create",
         record |-> CHOOSE p \in after.presence :
                        p.session_id = sessionId /\ p.last_seen = time]

\* The page's effect: loadProject(projectId, user?.name) up to its first await,
\* while the signed-in user's name is not known yet (user?.name is undefined).
LoadProject ==
    /\ load.pc = "idle"
    /\ state' = initializePresence([state EXCEPT !.isLoading = TRUE, !.error = Null], "")
    /\ load' = [load EXCEPT !.pc = "fetch", !.before = LoadedData(state),
                            !.opened = @ + 1]
    /\ last' = [op |-> "loadProject"]
    /\ UNCHANGED <<sub, server, events, others, now, tracker>>
    /\ UNCHANGED gridVars

\* The page's effect runs again (projectId changed): right after the cleanup of the
\* project shown so far, whose loadProject had settled, loadProject is called for
\* the next project, up to its first await.
OpenNext ==
    /\ tracker.stop # "idle"
    /\ load.pc \in {"resolved", "rejected"}
    /\ load.opened < MaxOpened
    /\ state' = initializePresence([state EXCEPT !.isLoading = TRUE, !.error = Null], "")
    /\ load' = [load EXCEPT !.pc = "fetch", !.before = LoadedData(state),
                            !.opened = @ + 1]
    /\ last' = [op |-> "openNext"]
    /\ UNCHANGED <<sub, server, events, others, now, tracker>>
    /\ UNCHANGED gridVars

\* fetchProjectFullData resolved: setAllData, then subscribeToProject up to its await.
FetchResolved ==
    /\ load.pc = "fetch"
    /\ server.permission # Null
    /\ LET data == [project |-> ProjectId,
                    tasks |-> SortBySortOrder(SetToSeq(server.tasks)),
                    resources |-> SortBySortOrder(SetToSeq(server.resources)),
                    allocations |-> SetToSeq(server.allocations),
                    userPermission |-> server.permission]
       IN  /\ state' = setAllData(state, data)
           /\ sub' = [sub EXCEPT !.taskIds = IdSet(data.tasks),
                                 !.resourceIds = IdSet(data.resources)]
    /\ load' = [load EXCEPT !.pc = "subscribe"]
    /\ last' = [op |-> "fetchResolved"]
    /\ UNCHANGED <<server, events, others, now, tracker>>
    /\ UNCHANGED gridVars

\* fetchProjectFullData threw: the user is neither owner nor has a permission row.
FetchRejected ==
    /\ load.pc = "fetch"
    /\ server.permission = Null
    /\ state' = loadProjectRejected(state, NoPermission)
    /\ load' = [load EXCEPT !.pc = "rejected"]
    /\ last' = [op |-> "fetchRejected"]
    /\ UNCHANGED <<sub, server, events, others, now, tracker>>
    /\ UNCHANGED gridVars

\* subscribeToProjectChanges resolved; loadProject goes on to startPresence,
\* which runs up to its first await.
SubscribeResolved ==
    /\ load.pc = "subscribe"
    /\ state' = [state EXCEPT !.subscription = TRUE]
    /\ sub' = [sub EXCEPT !.ready = TRUE]
    /\ load' = [load EXCEPT !.pc = "presence"]
    /\ tracker' = [tracker EXCEPT !.start = "upsert"]
    /\ last' = [op |-> "subscribeResolved"]
    /\ UNCHANGED <<server, events, others, now>>
    /\ UNCHANGED gridVars

\* subscribeToProjectChanges threw: the catch block of subscribeToProject.
SubscribeRejected ==
    /\ load.pc = "subscribe"
    /\ state' = [state EXCEPT !.error = LiveSyncUnavailable]
    /\ load' = [load EXCEPT !.pc = "presence", !.failedSubscribe = TRUE]
    /\ tracker' = [tracker EXCEPT !.start = "upsert"]
    /\ last' = [op |-> "subscribeRejected"]
    /\ UNCHANGED <<sub, server, events, others, now>>
    /\ UNCHANGED gridVars

\* startPresence: api.upsertPresence reaches the server.
StartPresenceUpsert ==
    /\ tracker.start = "upsert"
    /\ server' = upsertPresence(server, state.sessionId, state.userName, now)
    /\ LET e == UpsertEvent(server, state.sessionId, state.userName, now)
       IN  events' = EmitPresence(events, e.action, e.record)
    /\ tracker' = [tracker EXCEPT !.start = "fetch"]
    /\ last' = [op |-> "startPresenceUpsert"]
    /\ UNCHANGED <<state, sub, others, now, load>>
    /\ UNCHANGED gridVars

\* startPresence: api.fetchPresence resolved.
StartPresenceFetched ==
    /\ tracker.start = "fetch"
    /\ state' = startPresenceFetched(state, state.sessionId, fetchPresence(server, now))
    /\ tracker' = [tracker EXCEPT !.start = "subscribe"]
    /\ last' = [op |-> "startPresenceFetched"]
    /\ UNCHANGED <<sub, server, events, others, now, load>>
    /\ UNCHANGED gridVars

\* startPresence: api.subscribeToPresence resolved, setInterval, the final set;
\* loadProject resolves.
StartPresenceSubscribed ==
    /\ tracker.start = "subscribe"
    /\ state' = [state EXCEPT !.presenceSubscription = TRUE, !.presenceInterval = TRUE]
    /\ tracker' = [tracker EXCEPT !.start = "done", !.stream = TRUE,
                                  !.timer = <<now + HeartbeatSeconds>>]
    /\ load' = [load EXCEPT !.pc = "resolved"]
    /\ last' = [op |-> "startPresenceSubscribed"]
    /\ UNCHANGED <<sub, server, events, others, now>>
    /\ UNCHANGED gridVars

\* startPresence: api.subscribeToPresence threw; the catch block of loadProject.
StartPresenceRejected ==
    /\ tracker.start = "subscribe"
    /\ state' = loadProjectRejected(state, PresenceStreamError)
    /\ tracker' = [tracker EXCEPT !.start = "failed"]
    /\ load' = [load EXCEPT !.pc = "rejected"]
    /\ last' = [op |-> "startPresenceRejected"]
    /\ UNCHANGED <<sub, server, events, others, now>>
    /\ UNCHANGED gridVars

timerDue == IF tracker.timer = <<>> THEN FALSE ELSE now >= tracker.timer[1]

\* The interval fires: the tick runs up to its await, when there is a project.
Heartbeat ==
    /\ timerDue
    /\ tracker' = [tracker EXCEPT !.timer = <<@[1] + HeartbeatSeconds>>,
                                  !.beats = IF state.project # Null THEN @ + 1 ELSE @]
    /\ last' = [op |-> "heartbeat"]
    /\ UNCHANGED <<state, sub, server, events, others, now, load>>
    /\ UNCHANGED gridVars

\* A tick's upsertPresence resolved: the stale records are dropped.
HeartbeatDone ==
    /\ tracker.beats > 0
    /\ server' = upsertPresence(server, state.sessionId, state.userName, now)
    /\ LET e == UpsertEvent(server, state.sessionId, state.userName, now)
       IN  events' = EmitPresence(events, e.action, e.record)
    /\ state' = heartbeatCleanup(state, now)
    /\ tracker' = [tracker EXCEPT !.beats = @ - 1]
    /\ last' = [op |-> "heartbeatDone"]
    /\ UNCHANGED <<sub, others, now, load>>
    /\ UNCHANGED gridVars

\* Time passes, up to the moment the interval is due. A remote call and the
\* delivery of an event take less than a step of time.
Tick ==
    /\ now < MaxNow
    /\ ~timerDue
    /\ load.pc \in {"idle", "resolved", "rejected"}
    /\ tracker.start \in {"idle", "done", "failed"}
    /\ tracker.stop \in {"idle", "done"}
    /\ tracker.beats = 0 /\ tracker.removals = 0
    /\ events.presence = <<>>
    /\ now' = now + TimeStep
    /\ last' = [op |-> "tick"]
    /\ UNCHANGED <<state, sub, server, events, others, load, tracker>>
    /\ UNCHANGED gridVars

DeliverPresenceEvent ==
    /\ events.presence # <<>>
    /\ LET e == Head(events.presence)
       IN  /\ state' = handlePresenceChange(state, e)
           /\ last' = [op |-> "presenceEvent", event |-> e]
    /\ events' = [events EXCEPT !.presence = Tail(@)]
    /\ UNCHANGED <<sub, server, others, now, load, tracker>>
    /\ UNCHANGED gridVars

\* Another session's startPresence or heartbeat.
OtherUpsertPresence ==
    /\ others > 0
    /\ \E s \in OtherSessions :
        /\ server' = upsertPresence(server, s, OtherName, now)
        /\ LET e == UpsertEvent(server, s, OtherName, now)
           IN  events' = EmitPresence(events, e.action, e.record)
        /\ last' = [op |-> "otherUpsertPresence", session |-> s]
    /\ others' = others - 1
    /\ UNCHANGED <<state, sub, now, load, tracker>>
    /\ UNCHANGED gridVars

\* Another session's stopPresence.
OtherRemovePresence ==
    /\ others > 0
    /\ \E p \in server.presence :
        /\ p.session_id \in OtherSessions
        /\ server' = [server EXCEPT !.presence = @ \ {p}]
        /\ events' = EmitPresence(events, "delete", p)
        /\ last' = [op |-> "otherRemovePresence", session |-> p.session_id]
    /\ others' = others - 1
    /\ UNCHANGED <<state, sub, now, load, tracker>>
    /\ UNCHANGED gridVars

\* The page's cleanup: stopPresence() up to its first await, unsubscribeFromProject()
\* up to its await, then reset().
Unmount ==
    /\ load.pc # "idle"
    /\ tracker.stop = "idle"
    /\ tracker' = [tracker EXCEPT
            !.timer = IF state.presenceInterval THEN <<>> ELSE @,
            !.stop = IF state.presenceSubscription THEN "unsubscribe" ELSE "remove",
            !.removals = IF state.sessionId # "" THEN @ + 1 ELSE @]
    /\ sub' = [sub EXCEPT !.ready = IF state.subscription THEN FALSE ELSE @]
    /\ events' = IF state.subscription
                 THEN [events EXCEPT !.tasks = <<>>, !.resources = <<>>,
                                     !.allocations = <<>>]
                 ELSE events
    /\ load' = [load EXCEPT !.unsub = IF state.subscription THEN "pending" ELSE @]
    /\ state' = reset(state)
    /\ last' = [op |-> "unmount"]
    /\ UNCHANGED <<server, others, now>>
    /\ UNCHANGED gridVars

\* unsubscribeFromProject: unsubscribeAll resolved.
UnsubscribeDone ==
    /\ load.unsub = "pending"
    /\ state' = [state EXCEPT !.subscription = FALSE]
    /\ load' = [load EXCEPT !.unsub = "done"]
    /\ last' = [op |-> "unsubscribeDone"]
    /\ UNCHANGED <<sub, server, events, others, now, tracker>>
    /\ UNCHANGED gridVars

\* stopPresence: presenceSubscription.unsubscribe() resolved.
StopPresenceUnsubscribed ==
    /\ tracker.stop = "unsubscribe"
    /\ tracker' = [tracker EXCEPT !.stream = FALSE, !.stop = "remove"]
    /\ events' = [events EXCEPT !.presence = <<>>]
    /\ last' = [op |-> "stopPresenceUnsubscribed"]
    /\ UNCHANGED <<state, sub, server, others, now, load>>
    /\ UNCHANGED gridVars

\* stopPresence: api.removePresence resolved, having deleted the record or having
\* swallowed its failure; then the final set.
StopPresenceDone ==
    /\ tracker.stop = "remove"
    /\ \E failed \in BOOLEAN :
        /\ server' = IF failed THEN server ELSE removePresence(server, state.sessionId)
        /\ events' = IF failed \/ server' = server THEN events
                     ELSE EmitPresence(events, "delete",
                                       CHOOSE p \in server.presence \ server'.presence : TRUE)
        /\ last' = [op |-> "stopPresenceDone", failed |-> failed]
    /\ state' = stopPresenceDone(state)
    /\ tracker' = [tracker EXCEPT !.stop = "done"]
    /\ UNCHANGED <<sub, others, now, load>>
    /\ UNCHANGED gridVars

\* reset: its api.removePresence, which nobody awaits, reaches the server.
ResetRemovePresence ==
    /\ tracker.removals > 0
    /\ server' = removePresence(server, state.sessionId)
    /\ events' = IF server' = server THEN events
                 ELSE EmitPresence(events, "delete",
                                   CHOOSE p \in server.presence \ server'.presence : TRUE)
    /\ tracker' = [tracker EXCEPT !.removals = @ - 1]
    /\ last' = [op |-> "resetRemovePresence"]
    /\ UNCHANGED <<state, sub, others, now, load>>
    /\ UNCHANGED gridVars

\* ------------------------------------------------------------ specifications

UserOp ==
    \/ CreateTaskAsync \/ CreateResourceAsync
    \/ OnUpdateTask \/ OnUpdateResource
    \/ DeleteTaskAsync \/ DeleteResourceAsync
    \/ SetAllocationAsync \/ RemoveAllocationAsync

ServerStep ==
    \/ SrvCreateTask \/ SrvCreateResource
    \/ SrvUpdateTask \/ SrvUpdateResource
    \/ SrvDeleteTask \/ SrvDeleteResource
    \/ SrvUpsertLookup \/ SrvUpsertUpdate \/ SrvUpsertCreate
    \/ SrvDeleteAllocationLookup \/ SrvDeleteAllocation

Resolution ==
    \/ CreateTaskResolved \/ CreateTaskRejected
    \/ CreateResourceResolved \/ CreateResourceRejected
    \/ UpdateTaskRejected \/ UpdateResourceRejected
    \/ DeleteTaskRejected \/ DeleteResourceRejected
    \/ SetAllocationResolved \/ SetAllocationRejected

Delivery ==
    \/ DeliverTaskEvent \/ DeliverResourceEvent \/ DeliverAllocationEvent
    \/ ResourceTimer \/ AllocationTimer

OtherUser ==
    \/ OtherCreateTask \/ OtherCreateResource \/ OtherUpdateTask
    \/ OtherDeleteTask \/ OtherDeleteResource
    \/ OtherUpsertAllocation \/ OtherDeleteAllocation

Next == UserOp \/ ServerStep \/ Resolution \/ Delivery \/ OtherUser

Spec == Init /\ [][Next]_vars

\* ------------------------------------------------------------ scenarios
\* Each scenario is the program restricted to the operations of one topic, so
\* that more of them fit into a run.

CreateOps == 2
CreateOthers == 1

InitCreate ==
    \E subscribed \in BOOLEAN :
        InitWith(<<SnapshotTask>>, <<SnapshotResource>>, <<SnapshotAllocation>>,
                 subscribed, CreateOps, CreateOthers)

NextCreate ==
    \/ CreateTaskAsync \/ CreateResourceAsync
    \/ SrvCreateTask \/ SrvCreateResource
    \/ CreateTaskResolved \/ CreateTaskRejected
    \/ CreateResourceResolved \/ CreateResourceRejected
    \/ DeliverTaskEvent \/ DeliverResourceEvent
    \/ OtherCreateTask \/ OtherCreateResource

SpecCreate == InitCreate /\ [][NextCreate]_vars

AllocOps == 2
AllocOthers == 1

InitAlloc ==
    \E subscribed \in BOOLEAN :
        InitWith(<<SnapshotTask>>, <<SnapshotResource>>, <<SnapshotAllocation>>,
                 subscribed, AllocOps, AllocOthers)

NextAlloc ==
    \/ SetAllocationAsync \/ RemoveAllocationAsync
    \/ SrvUpsertLookup \/ SrvUpsertUpdate \/ SrvUpsertCreate
    \/ SrvDeleteAllocationLookup \/ SrvDeleteAllocation
    \/ SetAllocationResolved \/ SetAllocationRejected
    \/ DeliverAllocationEvent
    \/ OtherUpsertAllocation \/ OtherDeleteAllocation

SpecAlloc == InitAlloc /\ [][NextAlloc]_vars

\* A resource row from its creation to its deletion, on a project that opens
\* with one task and no resource.
LifeOps == 3

InitLife ==
    InitWith(<<SnapshotTask>>, <<>>, <<>>, TRUE, LifeOps, 0)

NextLife ==
    \/ CreateResourceAsync \/ SrvCreateResource \/ CreateResourceResolved
    \/ SetAllocationAsync
    \/ SrvUpsertLookup \/ SrvUpsertCreate \/ SetAllocationResolved
    \/ DeleteResourceAsync \/ SrvDeleteResource \/ DeleteResourceRejected
    \/ DeliverResourceEvent \/ DeliverAllocationEvent \/ AllocationTimer

SpecLife == InitLife /\ [][NextLife]_vars

SubOthers == 3

InitSub ==
    InitWith(<<SnapshotTask>>, <<SnapshotResource>>, <<SnapshotAllocation>>,
             TRUE, 0, SubOthers)

NextSub ==
    \/ OtherCreateTask \/ OtherCreateResource \/ OtherUpsertAllocation
    \/ DeliverTaskEvent \/ DeliverResourceEvent \/ DeliverAllocationEvent
    \/ ResourceTimer \/ AllocationTimer

SpecSub == InitSub /\ [][NextSub]_vars

DeleteOps == 2
DeleteOthers == 1

InitDelete ==
    \E subscribed \in BOOLEAN :
        InitWith(<<SnapshotTask, SnapshotTask2>>, <<SnapshotResource, SnapshotResource2>>,
                 <<SnapshotAllocation, SnapshotAllocation2>>,
                 subscribed, DeleteOps, DeleteOthers)

NextDelete ==
    \/ DeleteTaskAsync \/ DeleteResourceAsync
    \/ SrvDeleteTask \/ SrvDeleteResource
    \/ DeleteTaskRejected \/ DeleteResourceRejected
    \/ DeliverTaskEvent \/ DeliverResourceEvent \/ DeliverAllocationEvent
    \/ OtherDeleteTask \/ OtherDeleteResource \/ OtherUpsertAllocation

SpecDelete == InitDelete /\ [][NextDelete]_vars

UpdateOps == 2
UpdateOthers == 1

InitUpdate ==
    \E subscribed \in BOOLEAN :
        InitWith(<<SnapshotTask>>, <<SnapshotResource>>, <<SnapshotAllocation>>,
                 subscribed, UpdateOps, UpdateOthers)

NextUpdate ==
    \/ OnUpdateTask \/ OnUpdateResource
    \/ SrvUpdateTask \/ SrvUpdateResource
    \/ UpdateTaskRejected \/ UpdateResourceRejected
    \/ DeliverTaskEvent \/ DeliverResourceEvent
    \/ OtherUpdateTask

SpecUpdate == InitUpdate /\ [][NextUpdate]_vars

\* The page opens a project at time OpenedAt and leaves it again, while another
\* session, last seen at time 0 when it is there, comes and goes and time passes.
SessionOthers == 1

InitSession ==
    /\ state = initialState
    /\ sub = [ready |-> FALSE, taskIds |-> {}, resourceIds |-> {},
              pendingResources |-> <<>>, pendingAllocations |-> <<>>,
              resourceTimers |-> 0, allocationTimers |-> 0]
    /\ calls = {}
    /\ \E permission \in {"owner", Null}, present \in SUBSET OtherSessions :
        server = [tasks |-> {SnapshotTask}, resources |-> {SnapshotResource},
                  allocations |-> {SnapshotAllocation}, seq |-> 3,
                  permission |-> permission,
                  presence |-> {[id |-> PresenceId(1), project_id |-> ProjectId,
                                 session_id |-> s, user_name |-> OtherName,
                                 last_seen |-> 0] : s \in present},
                  pseq |-> 1]
    /\ events = [tasks |-> <<>>, resources |-> <<>>, allocations |-> <<>>,
                 presence |-> <<>>, missed |-> FALSE]
    /\ clock = 0
    /\ ops = 0
    /\ others = SessionOthers
    /\ last = [op |-> "init"]
    /\ resolved = {}
    /\ lastClickedCell = <<>>
    /\ strokes = <<>>
    /\ now = OpenedAt
    /\ load = [pc |-> "idle", unsub |-> "idle", before |-> LoadedData(initialState),
               failedSubscribe |-> FALSE, opened |-> 0]
    /\ tracker = [start |-> "idle", stop |-> "idle", stream |-> FALSE,
                  timer |-> <<>>, beats |-> 0, removals |-> 0]

NextSession ==
    \/ LoadProject \/ FetchResolved \/ FetchRejected
    \/ SubscribeResolved \/ SubscribeRejected
    \/ StartPresenceUpsert \/ StartPresenceFetched
    \/ StartPresenceSubscribed \/ StartPresenceRejected
    \/ Heartbeat \/ HeartbeatDone \/ Tick
    \/ OtherUpsertPresence \/ OtherRemovePresence \/ DeliverPresenceEvent
    \/ Unmount \/ UnsubscribeDone
    \/ StopPresenceUnsubscribed \/ StopPresenceDone \/ ResetRemovePresence

SpecSession == InitSession /\ [][NextSession]_vars

\* The page opens a project while another user is writing to it.
OpenOthers == 1

InitOpen ==
    /\ state = initialState
    /\ sub = [ready |-> FALSE, taskIds |-> {}, resourceIds |-> {},
              pendingResources |-> <<>>, pendingAllocations |-> <<>>,
              resourceTimers |-> 0, allocationTimers |-> 0]
    /\ calls = {}
    /\ server = [tasks |-> {SnapshotTask}, resources |-> {SnapshotResource},
                 allocations |-> {SnapshotAllocation}, seq |-> 3,
                 permission |-> "owner", presence |-> {}, pseq |-> 0]
    /\ events = [tasks |-> <<>>, resources |-> <<>>, allocations |-> <<>>,
                 presence |-> <<>>, missed |-> FALSE]
    /\ clock = 0
    /\ ops = 0
    /\ others = OpenOthers
    /\ last = [op |-> "init"]
    /\ resolved = {}
    /\ lastClickedCell = <<>>
    /\ strokes = <<>>
    /\ now = OpenedAt
    /\ load = [pc |-> "idle", unsub |-> "idle", before |-> LoadedData(initialState),
               failedSubscribe |-> FALSE, opened |-> 0]
    /\ tracker = [start |-> "idle", stop |-> "idle", stream |-> FALSE,
                  timer |-> <<>>, beats |-> 0, removals |-> 0]

NextOpen ==
    \/ LoadProject \/ FetchResolved \/ SubscribeResolved
    \/ StartPresenceUpsert \/ StartPresenceFetched \/ StartPresenceSubscribed
    \/ OtherCreateTask \/ OtherUpdateTask
    \/ OtherUpsertAllocation \/ OtherDeleteAllocation
    \/ DeliverTaskEvent \/ DeliverAllocationEvent

SpecOpen == InitOpen /\ [][NextOpen]_vars

\* The page, showing a project, is sent to the next one: the cleanup of the first
\* and loadProject of the next overlap, while another session comes and goes.
ReopenOthers == 1

InitReopen ==
    InitWith(<<SnapshotTask>>, <<SnapshotResource>>, <<SnapshotAllocation>>,
             TRUE, 0, ReopenOthers)

NextReopen ==
    \/ Unmount \/ OpenNext
    \/ FetchResolved \/ SubscribeResolved
    \/ StartPresenceUpsert \/ StartPresenceFetched \/ StartPresenceSubscribed
    \/ UnsubscribeDone \/ StopPresenceUnsubscribed \/ StopPresenceDone
    \/ ResetRemovePresence
    \/ OtherUpsertPresence \/ DeliverPresenceEvent

SpecReopen == InitReopen /\ [][NextReopen]_vars

\* A task's row gets a new resource and the task is deleted, in any order and
\* with any outcome of the two remote calls.
ProvisionalOps == 2

InitProvisional ==
    \E subscribed \in BOOLEAN :
        InitWith(<<SnapshotTask>>, <<SnapshotResource>>, <<SnapshotAllocation>>,
                 subscribed, ProvisionalOps, 0)

NextProvisional ==
    \/ CreateResourceAsync \/ SrvCreateResource
    \/ CreateResourceResolved \/ CreateResourceRejected
    \/ DeleteTaskAsync \/ SrvDeleteTask \/ DeleteTaskRejected
    \/ DeliverTaskEvent \/ DeliverResourceEvent \/ DeliverAllocationEvent

SpecProvisional == InitProvisional /\ [][NextProvisional]_vars

\* A store holding some records, to which one realtime event is delivered, and
\* then the same event once more.
MaxStored == 2

RECURSIVE DistinctSeqs(_, _)
DistinctSeqs(pool, n) ==
    IF n = 0 THEN {<<>>}
    ELSE LET shorter == DistinctSeqs(pool, n - 1)
         IN  shorter \cup {Append(y[1], y[2]) :
                             y \in {z \in shorter \X pool : z[2].id \notin IdSet(z[1])}}

TaskPool ==
    {SnapshotTask, [SnapshotTask EXCEPT !.name = "B"], SnapshotTask2,
     [SnapshotTask EXCEPT !.id = TempId(1)], [SnapshotTask2 EXCEPT !.id = TempId(2)]}

ResourcePool ==
    {SnapshotResource, [SnapshotResource EXCEPT !.name = "B"],
     [SnapshotResource EXCEPT !.id = ServerId(5), !.name = "B", !.sort_order = 2],
     [SnapshotResource EXCEPT !.id = TempId(1)],
     [SnapshotResource EXCEPT !.id = TempId(2), !.name = "B", !.sort_order = 2]}

AllocationPool ==
    {SnapshotAllocation, [SnapshotAllocation EXCEPT !.percentage = 50],
     [SnapshotAllocation EXCEPT !.id = TempId(1)],
     [SnapshotAllocation EXCEPT !.id = ServerId(6), !.date = DateOrder[2]],
     [SnapshotAllocation EXCEPT !.id = TempId(2), !.date = DateOrder[2]]}

PresencePool ==
    {[id |-> PresenceId(n), project_id |-> ProjectId, session_id |-> s,
      user_name |-> IF s = OwnSession THEN GeneratedName ELSE OtherName, last_seen |-> t] :
        n \in 1..2, s \in OtherSessions \cup {OwnSession}, t \in {0, HeartbeatSeconds}}

\* The events the server can send: records with server ids.
EventsOf(pool) ==
    {[action |-> a, record |-> r] :
        a \in {"create", "update", "delete"}, r \in {x \in pool : ~startsWithTemp(x.id)}}

\* One collection holds records drawn from its pool; the others hold the snapshot.
StoredRecords ==
    {[tasks |-> ts,
      resources |-> IF ServerId(1) \in IdSet(ts) THEN <<SnapshotResource>> ELSE <<>>,
      allocations |-> IF ServerId(1) \in IdSet(ts) THEN <<SnapshotAllocation>> ELSE <<>>,
      presence |-> <<>>] : ts \in DistinctSeqs(TaskPool, MaxStored)}
    \cup {[tasks |-> <<SnapshotTask>>, resources |-> rs, allocations |-> <<>>,
           presence |-> <<>>] : rs \in DistinctSeqs(ResourcePool, MaxStored)}
    \cup {[tasks |-> <<SnapshotTask>>, resources |-> <<SnapshotResource>>,
           allocations |-> as, presence |-> <<>>] :
            as \in DistinctSeqs(AllocationPool, MaxStored)}
    \cup {[tasks |-> <<SnapshotTask>>, resources |-> <<SnapshotResource>>,
           allocations |-> <<SnapshotAllocation>>, presence |-> ps] :
            ps \in DistinctSeqs({p \in PresencePool : p.session_id # OwnSession},
                                MaxStored)}

InitEvents ==
    /\ \E stored \in StoredRecords :
        LET ts == stored.tasks
            rs == stored.resources
            as == stored.allocations
            ps == stored.presence
        IN
        /\ state = Recompute([tasks |-> ts, resources |-> rs, allocations |-> as,
                              tasksWithData |-> <<>>, error |-> Null,
                              subscription |-> TRUE, project |-> ProjectId,
                              userPermission |-> "owner", isLoading |-> FALSE,
                              presenceList |-> ps, sessionId |-> OwnSession,
                              userName |-> GeneratedName,
                              presenceSubscription |-> TRUE, presenceInterval |-> TRUE])
        /\ sub = [ready |-> TRUE, taskIds |-> IdSet(ts), resourceIds |-> IdSet(rs),
                  pendingResources |-> <<>>, pendingAllocations |-> <<>>,
                  resourceTimers |-> 0, allocationTimers |-> 0]
    /\ calls = {}
    /\ server = [tasks |-> {}, resources |-> {}, allocations |-> {}, seq |-> 0,
                 permission |-> "owner", presence |-> {}, pseq |-> 0]
    /\ events = [tasks |-> <<>>, resources |-> <<>>, allocations |-> <<>>,
                 presence |-> <<>>, missed |-> FALSE]
    /\ clock = 0
    /\ ops = 0
    /\ others = 0
    /\ last = [op |-> "init"]
    /\ resolved = {}
    /\ lastClickedCell = <<>>
    /\ strokes = <<>>
    /\ now = 0
    /\ load = [pc |-> "resolved", unsub |-> "idle", before |-> LoadedData(initialState),
               failedSubscribe |-> FALSE, opened |-> 0]
    /\ tracker = [start |-> "done", stop |-> "idle", stream |-> TRUE,
                  timer |-> <<HeartbeatSeconds>>, beats |-> 0, removals |-> 0]

\* The callback of a collection's stream, applied to one event.
Delivered(S, C, collection, e) ==
    CASE collection = "tasks" -> onTaskEvent(S, C, e)
      [] collection = "resources" -> onResourceEvent(S, C, e)
      [] collection = "allocations" -> onAllocationEvent(S, C, e)
      [] collection = "presence" -> [S |-> handlePresenceChange(S, e), C |-> C]

Apply(collection, e) ==
    /\ last.op = "init"
    /\ LET h == Delivered(state, sub, collection, e)
       IN  /\ state' = h.S
           /\ sub' = h.C
    /\ last' = [op |-> "applied", collection |-> collection, event |-> e, before |-> state]
    /\ UNCHANGED <<calls, server, events, clock, ops, others, resolved, lastClickedCell,
                   strokes, now, load, tracker>>

ApplyTaskEvent == \E e \in EventsOf(TaskPool) : Apply("tasks", e)
ApplyResourceEvent == \E e \in EventsOf(ResourcePool) : Apply("resources", e)
ApplyAllocationEvent == \E e \in EventsOf(AllocationPool) : Apply("allocations", e)
ApplyPresenceEvent == \E e \in EventsOf(PresencePool) : Apply("presence", e)

\* The event just applied arrives once more.
ApplyAgain ==
    /\ last.op = "applied"
    /\ LET h == Delivered(state, sub, last.collection, last.event)
       IN  /\ state' = h.S
           /\ sub' = h.C
    /\ last' = [op |-> "appliedTwice", collection |-> last.collection,
                event |-> last.event, before |-> last.before, once |-> state]
    /\ UNCHANGED <<calls, server, events, clock, ops, others, resolved, lastClickedCell,
                   strokes, now, load, tracker>>

NextEvents ==
    \/ ApplyTaskEvent \/ ApplyResourceEvent \/ ApplyAllocationEvent \/ ApplyPresenceEvent
    \/ ApplyAgain

SpecEvents == InitEvents /\ [][NextEvents]_vars

\* The page opens a project of up to two tasks and three resources, with
\* allocations of either percentage on any of their cells.
AggregatePercentages == {25, 50}

AggregateTasks == {{SnapshotTask}, {SnapshotTask, SnapshotTask2}}

AggregateResources ==
    LET second == [SnapshotResource EXCEPT !.id = ServerId(7), !.name = "B",
                                           !.sort_order = 2]
    IN  {{}, {SnapshotResource}, {SnapshotResource, second},
         {SnapshotResource, SnapshotResource2},
         {SnapshotResource, second, SnapshotResource2}}

\* every choice of none or one percentage per cell of the resources
AggregateAllocations(resources) ==
    LET cells == {r.id : r \in resources} \X Dates
        paints == [cells -> AggregatePercentages \cup {0}]
        record(c, p) == [id |-> <<"id", 10 * c[1][2] + DateRank(c[2])>>,
                         resource_id |-> c[1], date |-> c[2], percentage |-> p,
                         color_hex |-> "#30A14E"]
    IN  {{record(c, f[c]) : c \in {x \in cells : f[x] # 0}} : f \in paints}

InitAggregate ==
    /\ state = initialState
    /\ sub = [ready |-> FALSE, taskIds |-> {}, resourceIds |-> {},
              pendingResources |-> <<>>, pendingAllocations |-> <<>>,
              resourceTimers |-> 0, allocationTimers |-> 0]
    /\ calls = {}
    /\ \E ts \in AggregateTasks, rs \in AggregateResources :
        \E as \in AggregateAllocations({r \in rs : r.task_id \in {t.id : t \in ts}}) :
            server = [tasks |-> ts,
                      resources |-> {r \in rs : r.task_id \in {t.id : t \in ts}},
                      allocations |-> as, seq |-> 100,
                      permission |-> "owner", presence |-> {}, pseq |-> 0]
    /\ events = [tasks |-> <<>>, resources |-> <<>>, allocations |-> <<>>,
                 presence |-> <<>>, missed |-> FALSE]
    /\ clock = 0
    /\ ops = 0
    /\ others = 0
    /\ last = [op |-> "init"]
    /\ resolved = {}
    /\ lastClickedCell = <<>>
    /\ strokes = <<>>
    /\ now = 0
    /\ load = [pc |-> "idle", unsub |-> "idle", before |-> LoadedData(initialState),
               failedSubscribe |-> FALSE, opened |-> 0]
    /\ tracker = [start |-> "idle", stop |-> "idle", stream |-> FALSE,
                  timer |-> <<>>, beats |-> 0, removals |-> 0]

NextAggregate == LoadProject \/ FetchResolved

SpecAggregate == InitAggregate /\ [][NextAggregate]_vars

\* The user creates tasks and resources and at once edits, paints and deletes
\* the rows so created, before any remote call has been answered.
TempOps == 3

InitTemp ==
    InitWith(<<SnapshotTask>>, <<SnapshotResource>>, <<SnapshotAllocation>>,
             TRUE, TempOps, 0)

NextTemp ==
    \/ CreateTaskAsync \/ CreateResourceAsync
    \/ OnUpdateTask \/ OnUpdateResource
    \/ DeleteTaskAsync \/ DeleteResourceAsync
    \/ SetAllocationAsync \/ RemoveAllocationAsync

SpecTemp == InitTemp /\ [][NextTemp]_vars

\* The user paints cells of one resource row with changing brushes; every upsert
\* runs on the server and resolves in any order.
PaintOps == 3

InitPaint ==
    \E subscribed \in BOOLEAN :
        InitWith(<<SnapshotTask>>, <<SnapshotResource>>, <<>>, subscribed, PaintOps, 0)

NextPaint ==
    \/ SetAllocationAsync
    \/ SrvUpsertLookup \/ SrvUpsertUpdate \/ SrvUpsertCreate
    \/ SetAllocationResolved \/ SetAllocationRejected
    \/ DeliverAllocationEvent

SpecPaint == InitPaint /\ [][NextPaint]_vars

\* ------------------------------------------------------------ properties

Count(s, id) == Cardinality({i \in 1..Len(s) : s[i].id = id})

\* The realtime 'create' event of record id is neither on its way nor queued.
CreateEventHandled(collection, id) ==
    /\ \A i \in 1..Len(events[collection]) :
            ~(events[collection][i].action = "create"
              /\ events[collection][i].record.id = id)
    /\ \A i \in 1..Len(sub.pendingResources) : sub.pendingResources[i].record.id # id

\* C1: a create that resolved and whose realtime 'create' event has been handled
\* (in either order) left exactly one record with the server id and none with
\* the call's temp id
C1_CreateRaceOneRecord ==
    \A d \in resolved :
        CreateEventHandled(d.collection, d.id) =>
            /\ Count(state[d.collection], d.id) = 1
            /\ Count(state[d.collection], d.tempId) = 0

\* the success handler ran after the realtime event had replaced the temp record
C1_Witness ==
    /\ sub.ready
    /\ last.op = "createTaskResolved"
    /\ CreateEventHandled("tasks", last.id)
    /\ Count(state.tasks, last.id) = 1

AllocationKeys(as) == {<<as[i].resource_id, as[i].date>> : i \in 1..Len(as)}

\* C2: the store never holds two allocations of one (resource_id, date) pair
C2_OneAllocationPerCell ==
    Cardinality(AllocationKeys(state.allocations)) = Len(state.allocations)

ShownUnder(taskId, resourceId) ==
    \E i \in 1..Len(state.tasksWithData) :
        /\ state.tasksWithData[i].id = taskId
        /\ resourceId \in IdSet(state.tasksWithData[i].resources)

\* C3: a resource whose 'create' event was delivered (and is not waiting in the
\* pending queue) and whose task's 'create' event has been processed is in the
\* store and shown under that task
C3_OutOfOrderResourceShown ==
    \A r \in server.resources :
        (/\ CreateEventHandled("resources", r.id)
         /\ CreateEventHandled("tasks", r.task_id)
         /\ r.task_id \in IdSet(state.tasks))
        => /\ r.id \in IdSet(state.resources)
           /\ ShownUnder(r.task_id, r.id)

\* the task id whose cascade the step applied, <<>> when the step is no cascade
CascadedTask ==
    IF last'.op = "deleteTaskAsync" THEN <<last'.id>>
    ELSE IF last'.op = "taskEvent" /\ last'.action = "delete" THEN <<last'.id>>
    ELSE <<>>

\* C4: right after deleteTask(T) or a realtime task 'delete' for T the store has
\* no task T, no resource of T and no allocation of a resource of T, and
\* everything that did not belong to T is as before
C4_CascadeComplete ==
    [][\A id \in Range(CascadedTask) :
        LET gone == {r.id : r \in {x \in Range(state.resources) : x.task_id = id}} IN
        /\ \A t \in Range(state'.tasks) : t.id # id
        /\ \A r \in Range(state'.resources) : r.task_id # id
        /\ \A a \in Range(state'.allocations) : a.resource_id \notin gone
        /\ state'.tasks = SelectSeq(state.tasks, LAMBDA t : t.id # id)
        /\ state'.resources = SelectSeq(state.resources, LAMBDA r : r.task_id # id)
        /\ state'.allocations =
                SelectSeq(state.allocations, LAMBDA a : a.resource_id \notin gone)
      ]_vars

\* a task with a resource and an allocation was deleted while another task with
\* its own allocation stays
C4_Witness ==
    /\ last.op = "deleteTaskAsync"
    /\ \E c \in calls : c.n = last.n /\ c.op = "deleteTask"
                        /\ c.originalAllocations # <<>>
    /\ state.allocations # <<>>
    /\ last.id \notin IdSet(state.tasks)

\* C5: tasksWithData is computeTasksWithData of the store's collections
C5_DerivedViewFresh ==
    state.tasksWithData =
        computeTasksWithData(state.tasks, state.resources, state.allocations)

\* C6: when the remote call of an edit made through the grid rejects, the record
\* is back at its pre-edit values at its old position, and error is set
C6_UpdateRollbackRestores ==
    [][(last'.op \in {"updateTaskRejected", "updateResourceRejected"}
        /\ last'.before # <<>>)
       => LET coll == IF last'.op = "updateTaskRejected" THEN "tasks" ELSE "resources"
          IN  /\ Len(state'[coll]) = Len(state[coll])
              /\ \A i \in 1..Len(state[coll]) :
                    state[coll][i].id = last'.id => state'[coll][i] = last'.before[1]
              /\ state'.error = RemoteError
      ]_vars

SameRecords(a, b) == Len(a) = Len(b) /\ Range(a) = Range(b)

\* C7: when the remote call of deleteTaskAsync or deleteResourceAsync rejects and
\* the store is still as the optimistic delete left it, the store holds the same
\* tasks, resources and allocations as before the delete, and error is set
C7_DeleteRollbackRestores ==
    [][(last'.op \in {"deleteTaskRejected", "deleteResourceRejected"}
        /\ StoreData(state) = last'.after)
       => /\ SameRecords(state'.tasks, last'.before.tasks)
          /\ SameRecords(state'.resources, last'.before.resources)
          /\ SameRecords(state'.allocations, last'.before.allocations)
          /\ state'.error = RemoteError
      ]_vars

\* a task delete that took a resource and an allocation along was rolled back
C7_Witness ==
    /\ last.op = "deleteTaskRejected"
    /\ Len(last.before.resources) > Len(last.after.resources)
    /\ Len(last.before.allocations) > Len(last.after.allocations)
    /\ SameRecords(state.allocations, last.before.allocations)
    /\ state.error = RemoteError

\* C8: when the remote call of createTaskAsync or createResourceAsync rejects, the
\* record with the call's temp id is gone, error is set, and every other task,
\* resource and allocation is as it was
C8_CreateFailureRemovesTemp ==
    [][last'.op \in {"createTaskRejected", "createResourceRejected"}
       => LET coll == IF last'.op = "createTaskRejected" THEN "tasks" ELSE "resources"
              other == IF coll = "tasks" THEN "resources" ELSE "tasks"
              tempId == last'.tempId
          IN  /\ Count(state'[coll], tempId) = 0
              /\ state'[coll] = SelectSeq(state[coll], LAMBDA x : x.id # tempId)
              /\ state'[other] = state[other]
              /\ state'.allocations = state.allocations
              /\ state'.error = RemoteError
      ]_vars

\* a failed task create took its temp record away and left another record
C8_Witness ==
    /\ last.op = "createTaskRejected"
    /\ Count(state.tasks, last.tempId) = 0
    /\ Len(state.tasks) > 1
    /\ state.error = RemoteError

\* C9: when the remote upsert of setAllocationAsync rejects, no allocation
\* changes (the paint stays) and error is set to the failure message
C9_PaintFailureKeepsPaint ==
    [][last'.op = "setAllocationRejected"
       => /\ state'.allocations = state.allocations
          /\ state'.tasksWithData = state.tasksWithData
          /\ state'.error = RemoteError
      ]_vars

\* the painted cell is still in the store, unsaved, after the failure
C9_Witness ==
    /\ last.op = "setAllocationRejected"
    /\ state.error = RemoteError
    /\ \E a \in Range(state.allocations) :
            /\ a.resource_id = last.resourceId /\ a.date = last.date
            /\ a.percentage = last.percentage /\ a.color_hex = last.colorHex
            /\ startsWithTemp(a.id)

UsesTempId(c) ==
    CASE c.op = "createTask" -> FALSE
      [] c.op = "createResource" -> startsWithTemp(c.data.task_id)
      [] c.op \in {"upsertAllocation", "deleteAllocationByKey"} ->
            startsWithTemp(c.resourceId)
      [] OTHER -> startsWithTemp(c.id)

\* C10: no remote call carries an identifier that starts with temp_
C10_NoTempIdInRemoteCall == \A c \in calls : ~UsesTempId(c)

\* C11: while the subscription stands, its taskIds and resourceIds are the ids
\* of the tasks and resources in the store
C11_MembershipMatchesStore ==
    sub.ready => /\ sub.taskIds = IdSet(state.tasks)
                 /\ sub.resourceIds = IdSet(state.resources)

\* C12: a realtime event that arrives twice in a row leaves the store as it was
\* after the first arrival, for tasks, resources, allocations and presence
C12_EventTwiceAsOnce == last.op = "appliedTwice" => state = last.once

\* a create event that replaced the matching temp record has arrived twice
C12_Witness ==
    /\ last.op = "appliedTwice"
    /\ last.event.action = "create"
    /\ last.collection \in {"tasks", "resources", "allocations"}
    /\ \E i \in 1..Len(last.before[last.collection]) :
        /\ startsWithTemp(last.before[last.collection][i].id)
        /\ i <= Len(state[last.collection])
        /\ state[last.collection][i] = last.event.record
    /\ last.before # last.once

\* The allocations of the store that belong to a task: those of the resources
\* whose task_id is the task's id.
AllocationsOfTask(taskId) ==
    {a \in Range(state.allocations) :
        \E r \in Range(state.resources) : r.id = a.resource_id /\ r.task_id = taskId}

RECURSIVE SumOfPercentages(_)
SumOfPercentages(allocs) ==
    IF allocs = {} THEN 0
    ELSE LET a == CHOOSE x \in allocs : TRUE
         IN  a.percentage + SumOfPercentages(allocs \ {a})

EarliestDate(allocs) ==
    IF allocs = {} THEN Null
    ELSE CHOOSE d \in {a.date : a \in allocs} : \A a \in allocs : ~DateLt(a.date, d)

LatestDate(allocs) ==
    IF allocs = {} THEN Null
    ELSE CHOOSE d \in {a.date : a \in allocs} : \A a \in allocs : ~DateLt(d, a.date)

\* C13: every row of tasksWithData carries the earliest and the latest date and the
\* sum of the percentages of the allocations of the task's own resources, null,
\* null and 0 when there are none
C13_AggregationOfOwnAllocations ==
    \A i \in 1..Len(state.tasksWithData) :
        LET row == state.tasksWithData[i]
            own == AllocationsOfTask(row.id)
        IN  /\ row.computed.startDate = EarliestDate(own)
            /\ row.computed.endDate = LatestDate(own)
            /\ row.computed.totalEffort = SumOfPercentages(own)

\* a task with two resources painted on different dates, next to a painted task
\* and next to a task without allocations
C13_Witness ==
    /\ last.op = "fetchResolved"
    /\ \E i, j \in 1..Len(state.tasksWithData) :
        /\ i # j
        /\ Len(state.tasksWithData[i].resources) = 2
        /\ \A k \in 1..2 : state.tasksWithData[i].resources[k].allocations # <<>>
        /\ state.tasksWithData[i].computed.startDate = DateOrder[1]
        /\ state.tasksWithData[i].computed.endDate = DateOrder[2]
        /\ state.tasksWithData[i].computed.totalEffort = 75
        /\ state.tasksWithData[j].computed.totalEffort = 50

\* C14: calls of upsertAllocation for one (resource_id, date) leave one allocation
\* for the key on the server, and none of them, having found no record for the
\* key, fails on the unique index when it creates one
C14_UpsertNeverConflicts ==
    /\ \A a, b \in server.allocations :
        a.resource_id = b.resource_id /\ a.date = b.date => a = b
    /\ last.op = "setAllocationRejected" => ~(last.absent /\ last.conflict)

\* C15: getOtherUsers() returns no record whose last_seen is more than 30 seconds
\* old, whether or not a presence event has arrived since
C15_NoStaleOtherUsers ==
    \A p \in Range(getOtherUsers(state)) : now - p.last_seen <= StaleSeconds

\* C16: presenceList, and with it getOtherUsers(), never holds a record of the
\* store's own session
C16_OwnSessionNotListed ==
    /\ \A p \in Range(state.presenceList) : p.session_id # state.sessionId
    /\ getOtherUsers(state) = state.presenceList

\* an event for the own session's record has just arrived, after fetchPresence
\* had returned the own record next to another session's
C16_Witness ==
    /\ last.op = "presenceEvent"
    /\ last.event.record.session_id = state.sessionId
    /\ state.presenceList # <<>>
    /\ \E p \in server.presence : p.session_id = state.sessionId

\* C17: once stopPresence has been called no heartbeat tick starts any more, the
\* presence stream is unsubscribed before the own record is removed, and when
\* stopPresence completes, presenceList is empty and presenceSubscription and
\* presenceInterval are null
C17_StoppedPresenceStaysStopped ==
    /\ last.op = "heartbeat" => tracker.stop = "idle"
    /\ tracker.stop \in {"remove", "done"} => ~tracker.stream
    /\ last.op = "stopPresenceDone" =>
        /\ state.presenceList = <<>>
        /\ ~state.presenceSubscription
        /\ ~state.presenceInterval

\* C18: when subscribeToProjectChanges fails during loadProject, loadProject still
\* resolves, with the fetched data in the store, isLoading false, the live-sync
\* message in error, the subscription null and presence started
C18_LoadSurvivesSubscribeFailure ==
    (load.failedSubscribe /\ load.pc \in {"resolved", "rejected"} /\ tracker.stop = "idle")
        => /\ load.pc = "resolved"
           /\ state.project = ProjectId
           /\ IdSet(state.tasks) = {t.id : t \in server.tasks}
           /\ ~state.isLoading
           /\ state.error = LiveSyncUnavailable
           /\ ~state.subscription
           /\ tracker.start = "done" /\ tracker.timer # <<>>

\* C19: when the user is neither owner nor has a permission row, loadProject
\* rejects with the no-permission error, isLoading is false, project, tasks,
\* resources, allocations and userPermission are what they were before the call,
\* and neither the subscription nor the presence heartbeat is started, for as
\* long as the page stays open
C19_NoPermissionLeavesStore ==
    (server.permission = Null /\ load.pc \notin {"idle", "fetch"} /\ tracker.stop = "idle")
        => /\ load.pc = "rejected"
           /\ ~state.isLoading
           /\ state.error = NoPermission
           /\ LoadedData(state) = load.before
           /\ ~state.subscription /\ ~sub.ready
           /\ ~state.presenceSubscription /\ ~state.presenceInterval
           /\ tracker.start = "idle" /\ tracker.timer = <<>> /\ ~tracker.stream

\* loadProject has just been rejected for want of a permission
C19_Witness ==
    /\ last.op = "fetchRejected"
    /\ server.permission = Null
    /\ load.pc = "rejected"
    /\ state.error = NoPermission
    /\ state.sessionId = OwnSession

\* C20: updateTaskAsync, updateResourceAsync, deleteTaskAsync, deleteResourceAsync
\* on a temp id, and setAllocationAsync, removeAllocationAsync on a temp resource
\* id, issue no remote call; the two updates leave the store as the grid's own
\* updateTask or updateResource had left it
C20_TempTargetStaysLocal ==
    [][/\ (last'.op \in {"onUpdateTask", "onUpdateResource", "deleteTaskAsync",
                         "deleteResourceAsync"} /\ last'.id[1] = "temp_")
            => calls' = calls
       /\ (last'.op \in {"setAllocationAsync", "removeAllocationAsync"}
            /\ last'.resourceId[1] = "temp_")
            => calls' = calls
       /\ (last'.op = "onUpdateTask" /\ last'.id[1] = "temp_")
            => state' = updateTask(state, last'.id, last'.updates)
       /\ (last'.op = "onUpdateResource" /\ last'.id[1] = "temp_")
            => state' = updateResource(state, last'.id, last'.updates)
      ]_vars

\* a temp resource has been painted and then erased again while remote calls
\* issued for records with server ids are still unanswered
C20_Witness ==
    /\ last.op = "removeAllocationAsync"
    /\ last.resourceId[1] = "temp_"
    /\ calls # {}
    /\ \A c \in calls : c.op # "upsertAllocation" /\ c.op # "deleteAllocationByKey"

\* C21: right after the success handler of createTaskAsync or createResourceAsync
\* the store holds a record with the id the server assigned, whatever happened to
\* the temp record in between
C21_ResolvedCreateInStore ==
    [][last'.op \in {"createTaskResolved", "createResourceResolved"}
       => LET coll == IF last'.op = "createTaskResolved" THEN "tasks" ELSE "resources"
          IN  Count(state'[coll], last'.id) >= 1
      ]_vars

\* the paints and erasures of one cell, in the order the user issued them
StrokesOf(resourceId, date) ==
    SelectSeq(strokes, LAMBDA k : k.resourceId = resourceId /\ k.date = date)

\* C22: when a cell was painted several times, no upsert failed, every call has
\* resolved and every realtime event has been delivered, the store's allocation
\* of the cell has the percentage and color of the paint issued last
C22_LastPaintWins ==
    (calls = {} /\ events.allocations = <<>> /\ state.error = Null)
    => \A r \in IdSet(state.resources), d \in Dates :
          LET ks == StrokesOf(r, d) IN
          (Len(ks) >= 2 /\ \A i \in 1..Len(ks) : ks[i].kind = "paint")
          => \E a \in Range(state.allocations) :
                /\ a.resource_id = r /\ a.date = d
                /\ a.percentage = ks[Len(ks)].percentage
                /\ a.color_hex = ks[Len(ks)].colorHex

\* C23: when the remote call of an update rejects and no other update of the
\* record is in flight, every field the failed edit did not write and that was
\* written while the call was in flight (it differs from the value the record had
\* when the call was issued) still has its value after the rollback
C23_RollbackKeepsLaterWrites ==
    [][(last'.op \in {"updateTaskRejected", "updateResourceRejected"}
        /\ last'.original # <<>>
        /\ \A c \in calls' : c.id # last'.id)
       => LET coll == IF last'.op = "updateTaskRejected" THEN "tasks" ELSE "resources"
          IN  \A i \in 1..Len(state[coll]) :
                state[coll][i].id = last'.id
                => \A f \in DOMAIN state[coll][i] \ DOMAIN last'.data :
                      state[coll][i][f] # last'.original[1][f]
                      => state'[coll][i][f] = state[coll][i][f]
      ]_vars

\* C24: every resource in the store belongs to a task in the store and every
\* allocation to a resource in the store
C24_NoOrphans ==
    /\ \A r \in Range(state.resources) : r.task_id \in IdSet(state.tasks)
    /\ \A a \in Range(state.allocations) : a.resource_id \in IdSet(state.resources)

\* C25: when a task 'create' event is handled while a resource 'create' event of
\* that task waits in the pending queue, the store holds the task and the
\* resource once the handler has returned
C25_FlushedResourceKept ==
    [][(last'.op = "taskEvent" /\ last'.action = "create")
       => \A i \in 1..Len(sub.pendingResources) :
            LET e == sub.pendingResources[i] IN
            (e.action = "create" /\ e.record.task_id = last'.id)
            => /\ last'.id \in IdSet(state'.tasks)
               /\ e.record.id \in IdSet(state'.resources)
      ]_vars

\* C26: when the user's last stroke on a cell is an erasure issued while a paint
\* of that cell was in flight, the erasure's remote call met no failure, no
\* other user has written, every call has resolved and every realtime event has
\* been handled, the store has no allocation for the cell
C26_EraseAfterPaintWins ==
    (/\ calls = {} /\ others = AllocOthers
     /\ events.allocations = <<>> /\ sub.pendingAllocations = <<>>)
    => \A r \in IdSet(state.resources), d \in Dates :
          LET ks == StrokesOf(r, d) IN
          (IF ks = <<>> THEN FALSE
           ELSE /\ ks[Len(ks)].kind = "erase" /\ ks[Len(ks)].overlap
                /\ ks[Len(ks)].remote \in {"absent", "deleted"})
          => ~\E a \in Range(state.allocations) : a.resource_id = r /\ a.date = d

\* the store holds the records the server holds, no more and no fewer
StoreMatchesServer ==
    /\ Range(state.tasks) = server.tasks
    /\ Range(state.resources) = server.resources
    /\ Range(state.allocations) = server.allocations

\* C27: when another user wrote to the project after the snapshot was fetched and
\* before the subscriptions stood, the store shows the server's records once
\* loadProject has resolved and every delivered event has been processed
C27_GapChangesReflected ==
    (/\ load.pc = "resolved" /\ state.subscription /\ events.missed
     /\ events.tasks = <<>> /\ events.resources = <<>> /\ events.allocations = <<>>
     /\ sub.pendingResources = <<>> /\ sub.pendingAllocations = <<>>)
    => StoreMatchesServer

\* stopPresence, unsubscribeFromProject and reset of the page's cleanup have run
\* to their ends
CleanupComplete ==
    tracker.stop = "done" /\ load.unsub # "pending" /\ tracker.removals = 0

\* C28: once the page's cleanup has run, the project's realtime subscriptions,
\* the presence stream and the heartbeat timer are all off, whatever loadProject
\* was waiting for when the cleanup started
C28_NothingLeftRunning ==
    CleanupComplete => /\ ~sub.ready
                       /\ ~tracker.stream
                       /\ tracker.timer = <<>>

\* C29: when the cleanup of one project and loadProject of the next overlapped and
\* both have run to their ends, the store's subscription, presenceSubscription
\* and presenceInterval are set, and the timer they stand for is running
C29_NextProjectKeepsHandles ==
    (load.opened = 2 /\ load.pc = "resolved" /\ CleanupComplete)
    => /\ state.subscription
       /\ state.presenceSubscription
       /\ state.presenceInterval
       /\ tracker.timer # <<>>

\* C30: once the remote call of createTaskAsync or createResourceAsync has
\* resolved, no record of the store carries the call's temp id
C30_NoStuckProvisional ==
    \A d \in resolved : Count(state[d.collection], d.tempId) = 0

\* C31: when the remote deletion behind removeAllocationAsync fails (its look-up
\* or its delete request is rejected), the store holds an allocation for the
\* erased cell again and error is set once the call has returned
C31_FailedEraseRestored ==
    [][\A i \in 1..Len(strokes) :
          (/\ strokes[i].kind = "erase"
           /\ strokes[i].remote = "sent" /\ strokes'[i].remote = "failed")
          => /\ \E a \in Range(state'.allocations) :
                    a.resource_id = strokes[i].resourceId /\ a.date = strokes[i].date
             /\ state'.error # Null
      ]_vars

\* C32: a realtime "update" event for a task or a resource whose id is not in
\* the store inserts the record: after the handler the store holds it
C32_UpdateUpserts ==
    [][(/\ last'.op = "applied"
        /\ last'.collection \in {"tasks", "resources"}
        /\ last'.event.action = "update"
        /\ last'.event.record.id \notin IdSet(state[last'.collection]))
       => \E i \in 1..Len(state'[last'.collection]) :
              state'[last'.collection][i] = last'.event.record
      ]_vars

\* C33: every flush of a pending queue (retry timer, parent create with its
\* membership refresh) leaves the queue empty, the flush a task's create causes
\* delivers the queued resources of that task (their ids are known afterwards),
\* and no step puts an event it took out of a queue back: a queue is emptied,
\* extended by one new event, or left alone
C33_FlushEmptiesQueue ==
    [][/\ (\/ last'.op = "resourceTimer"
           \/ (last'.op = "taskEvent" /\ last'.action = "create"))
          => sub'.pendingResources = <<>>
       /\ (\/ last'.op = "allocationTimer"
           \/ (/\ last'.op = "resourceEvent" /\ last'.action = "create"
               /\ Head(events.resources).record.task_id \in sub.taskIds))
          => sub'.pendingAllocations = <<>>
       /\ (last'.op = "taskEvent" /\ last'.action = "create")
          => \A i \in 1..Len(sub.pendingResources) :
                sub.pendingResources[i].record.task_id = last'.id
                => sub.pendingResources[i].record.id \in sub'.resourceIds
       /\ \/ sub'.pendingResources \in {<<>>, sub.pendingResources}
          \/ /\ Len(sub'.pendingResources) = Len(sub.pendingResources) + 1
             /\ SubSeq(sub'.pendingResources, 1, Len(sub.pendingResources))
                    = sub.pendingResources
       /\ \/ sub'.pendingAllocations \in {<<>>, sub.pendingAllocations}
          \/ /\ Len(sub'.pendingAllocations) = Len(sub.pendingAllocations) + 1
             /\ SubSeq(sub'.pendingAllocations, 1, Len(sub.pendingAllocations))
                    = sub.pendingAllocations
      ]_vars

\* a retry timer has flushed a queue holding an event of a task still unknown:
\* the event is gone from the queue and from the store
C33_Witness ==
    /\ last.op = "resourceTimer"
    /\ \E i \in 1..Len(last.queued) :
          /\ last.queued[i].record.task_id \notin last.taskIds
          /\ last.queued[i].record.id \notin IdSet(state.resources)
    /\ sub.pendingResources = <<>>

\* The array a create's success producer replaced the temp record in.
CreatedCollection(op) == IF op = "createTaskResolved" THEN "tasks" ELSE "resources"

\* C34: when a create succeeds while its temp record is still in the store and
\* the server record is not, the server record stands at the index the temp
\* record had and every other record of the collection is where and what it was
C34_ReplacedInPlace ==
    [][\A c \in calls :
        LET coll == CreatedCollection(last'.op)
            old == state[coll]
            new == state'[coll]
            tempIndex == FindIndex(old, LAMBDA r : r.id = c.tempId)
        IN  (/\ last'.op \in {"createTaskResolved", "createResourceResolved"}
             /\ c.n = last'.n /\ c.op \in {"createTask", "createResource"}
             /\ c.status = "ok"
             /\ tempIndex # 0
             /\ c.response.id \notin IdSet(old))
            => /\ Len(new) = Len(old)
               /\ new[tempIndex] = c.response
               /\ \A j \in 1..Len(old) : j # tempIndex => new[j] = old[j]
      ]_vars

\* a create was confirmed into a slot that is not the last one: the temp record
\* stood before another record, the server record stands there now
C34_Witness ==
    /\ last.op \in {"createTaskResolved", "createResourceResolved"}
    /\ \E i \in 1..Len(last.before) :
          /\ last.before[i].id = last.tempId
          /\ i < Len(last.before)
          /\ last.id \notin IdSet(last.before)
          /\ state[CreatedCollection(last.op)][i].id = last.id

\* C35: setAllocation on a cell that has an allocation overwrites that
\* allocation's percentage and colour only (same id, same index); on an empty
\* cell it appends exactly one allocation with a temp id; every other allocation,
\* the tasks and the resources are unchanged
C35_SetAllocationFrame ==
    [][last'.op = "setAllocationAsync" =>
        LET paint == strokes'[Len(strokes')]
            old == state.allocations
            new == state'.allocations
            existingIndex == FindIndex(old, LAMBDA a :
                                a.resource_id = paint.resourceId /\ a.date = paint.date)
        IN  /\ state'.tasks = state.tasks
            /\ state'.resources = state.resources
            /\ IF existingIndex # 0
               THEN new = [old EXCEPT ![existingIndex].percentage = paint.percentage,
                                      ![existingIndex].color_hex = paint.colorHex]
               ELSE /\ Len(new) = Len(old) + 1
                    /\ SubSeq(new, 1, Len(old)) = old
                    /\ startsWithTemp(new[Len(new)].id)
                    /\ new[Len(new)].resource_id = paint.resourceId
                    /\ new[Len(new)].date = paint.date
                    /\ new[Len(new)].percentage = paint.percentage
                    /\ new[Len(new)].color_hex = paint.colorHex
      ]_vars

\* a persisted allocation was painted over among other allocations: it shows
\* the brush's value under its server id
C35_Witness ==
    /\ last.op = "setAllocationAsync"
    /\ Len(state.allocations) >= 2
    /\ \E a \in Range(state.allocations) :
          /\ a.resource_id = last.resourceId /\ a.date = last.date
          /\ ~startsWithTemp(a.id)
          /\ a.percentage = strokes[Len(strokes)].percentage
          /\ a.color_hex = strokes[Len(strokes)].colorHex

\* ------------------------------------------------------------ same-millisecond creates
\* Date.now() has millisecond resolution: a createTaskAsync or createResourceAsync
\* that runs in the millisecond of the create before it reads the same value and
\* builds the same temp id.

\* createTaskAsync called again within the millisecond of the last temp id
CreateTaskAsyncSameMs ==
    \E name \in Names :
        LET sortOrder == Len(state.tasks) + 1
            tempId == TempId(clock)
            dto == [project_id |-> ProjectId,
                    display_id |-> ToString(Len(state.tasksWithData) + 1),
                    name |-> name, sort_order |-> sortOrder]
        IN  /\ ops > 0
            /\ last.op = "createTaskAsync"
            /\ state' = addTask(state, ObjectAssign(dto, [id |-> tempId]))
            /\ calls' = calls \cup {[n |-> ops, op |-> "createTask", status |-> "sent",
                                     tempId |-> tempId, data |-> dto]}
            /\ ops' = ops - 1
            /\ last' = [op |-> "createTaskAsync", n |-> ops]
            /\ UNCHANGED <<sub, server, events, clock, others, resolved, lastClickedCell,
                           strokes, now, load, tracker>>

\* createResourceAsync called again within the millisecond of the last temp id
CreateResourceAsyncSameMs ==
    \E taskId \in RenderedTasks, name \in Names :
        LET taskResources == SelectSeq(state.resources, LAMBDA r : r.task_id = taskId)
            tempId == TempId(clock)
            dto == [task_id |-> taskId, name |-> name,
                    sort_order |-> Len(taskResources) + 1]
        IN  /\ ops > 0
            /\ last.op = "createResourceAsync"
            /\ state' = addResource(state, ObjectAssign(dto, [id |-> tempId]))
            /\ calls' = calls \cup {[n |-> ops, op |-> "createResource",
                                     status |-> "sent", tempId |-> tempId, data |-> dto]}
            /\ ops' = ops - 1
            /\ last' = [op |-> "createResourceAsync", n |-> ops]
            /\ UNCHANGED <<sub, server, events, clock, others, resolved, lastClickedCell,
                           strokes, now, load, tracker>>

\* Two creates in a row, the second possibly within the millisecond of the first.
BurstOps == 2

InitBurst ==
    \E subscribed \in BOOLEAN :
        InitWith(<<SnapshotTask>>, <<SnapshotResource>>, <<SnapshotAllocation>>,
                 subscribed, BurstOps, 0)

NextBurst ==
    \/ CreateTaskAsync \/ CreateTaskAsyncSameMs
    \/ CreateResourceAsync \/ CreateResourceAsyncSameMs
    \/ SrvCreateTask \/ SrvCreateResource
    \/ CreateTaskResolved \/ CreateTaskRejected
    \/ CreateResourceResolved \/ CreateResourceRejected
    \/ DeliverTaskEvent \/ DeliverResourceEvent

SpecBurst == InitBurst /\ [][NextBurst]_vars

\* C36: the failure of one pending create removes only its own provisional
\* record: the array loses at most one record, and every other create of the
\* collection that is still pending and had its provisional record in the store
\* still has it, also when the creates were issued within one millisecond
C36_FailureRemovesOwnRecordOnly ==
    [][last'.op \in {"createTaskRejected", "createResourceRejected"} =>
        LET coll == IF last'.op = "createTaskRejected" THEN "tasks" ELSE "resources"
            call == IF last'.op = "createTaskRejected" THEN "createTask"
                    ELSE "createResource"
        IN  /\ Len(state'[coll]) >= Len(state[coll]) - 1
            /\ \A c \in calls' :
                  (c.op = call /\ c.tempId \in IdSet(state[coll]))
                  => c.tempId \in IdSet(state'[coll])
      ]_vars

\* ------------------------------------------------------------ a session that went away
\* The page opens a project on which a session that ended without stopPresence
\* (a closed tab) left its presence record, while another session is active.
GoneSession == "s0"
StaleOthers == 2

InitStale ==
    /\ state = initialState
    /\ sub = [ready |-> FALSE, taskIds |-> {}, resourceIds |-> {},
              pendingResources |-> <<>>, pendingAllocations |-> <<>>,
              resourceTimers |-> 0, allocationTimers |-> 0]
    /\ calls = {}
    /\ server = [tasks |-> {SnapshotTask}, resources |-> {SnapshotResource},
                 allocations |-> {SnapshotAllocation}, seq |-> 3,
                 permission |-> "owner",
                 presence |-> {[id |-> PresenceId(1), project_id |-> ProjectId,
                                session_id |-> GoneSession,
                                user_name |-> OtherName, last_seen |-> 0]},
                 pseq |-> 1]
    /\ events = [tasks |-> <<>>, resources |-> <<>>, allocations |-> <<>>,
                 presence |-> <<>>, missed |-> FALSE]
    /\ clock = 0
    /\ ops = 0
    /\ others = StaleOthers
    /\ last = [op |-> "init"]
    /\ resolved = {}
    /\ lastClickedCell = <<>>
    /\ strokes = <<>>
    /\ now = OpenedAt
    /\ load = [pc |-> "idle", unsub |-> "idle", before |-> LoadedData(initialState),
               failedSubscribe |-> FALSE, opened |-> 0]
    /\ tracker = [start |-> "idle", stop |-> "idle", stream |-> FALSE,
                  timer |-> <<>>, beats |-> 0, removals |-> 0]

NextStale ==
    \/ LoadProject \/ FetchResolved \/ SubscribeResolved
    \/ StartPresenceUpsert \/ StartPresenceFetched \/ StartPresenceSubscribed
    \/ Heartbeat \/ HeartbeatDone \/ Tick
    \/ OtherUpsertPresence \/ OtherRemovePresence \/ DeliverPresenceEvent

SpecStale == InitStale /\ [][NextStale]_vars

\* C38: handling a realtime presence event of another session removes the
\* records of presenceList whose last_seen is older than the 30-second staleness
\* window: right after the handler no such record is in the list
C38_EventDropsStale ==
    [][(last'.op = "presenceEvent" /\ last'.event.record.session_id # state.sessionId)
       => \A p \in Range(state'.presenceList) : p.last_seen > now' - StaleSeconds
      ]_vars

\* ------------------------------------------------------------ the user's name arrives
\* The page's second effect: user.name became known (or changed) while the
\* project is shown: initializePresence(user.name), which fires
\* api.upsertPresence without awaiting it.
UpdatePresenceName ==
    \E name \in RealNames :
        /\ load.pc = "resolved" /\ tracker.stop = "idle"
        /\ state.project # Null
        /\ state' = initializePresence(state, name)
        /\ calls' = IF state.sessionId # "" /\ state.userName # name
                    THEN calls \cup {[n |-> 0, op |-> "upsertPresence",
                                      sessionId |-> state.sessionId, userName |-> name]}
                    ELSE calls
        /\ last' = [op |-> "initializePresence", name |-> name,
                    before |-> state.userName]
        /\ UNCHANGED <<sub, server, events, clock, ops, others, resolved, lastClickedCell,
                       strokes, now, load, tracker>>

\* The api.upsertPresence of initializePresence reaches the server.
SrvUpsertPresence ==
    \E c \in calls :
        /\ c.op = "upsertPresence"
        /\ server' = upsertPresence(server, c.sessionId, c.userName, now)
        /\ LET e == UpsertEvent(server, c.sessionId, c.userName, now)
           IN  events' = EmitPresence(events, e.action, e.record)
        /\ calls' = calls \ {c}
        /\ last' = [op |-> "srvUpsertPresence", name |-> c.userName,
                    sessionId |-> c.sessionId]
        /\ UNCHANGED <<state, sub, clock, ops, others, resolved, lastClickedCell,
                       strokes, now, load, tracker>>

NameOthers == 1

InitName ==
    /\ state = initialState
    /\ sub = [ready |-> FALSE, taskIds |-> {}, resourceIds |-> {},
              pendingResources |-> <<>>, pendingAllocations |-> <<>>,
              resourceTimers |-> 0, allocationTimers |-> 0]
    /\ calls = {}
    /\ server = [tasks |-> {SnapshotTask}, resources |-> {SnapshotResource},
                 allocations |-> {SnapshotAllocation}, seq |-> 3,
                 permission |-> "owner", presence |-> {}, pseq |-> 0]
    /\ events = [tasks |-> <<>>, resources |-> <<>>, allocations |-> <<>>,
                 presence |-> <<>>, missed |-> FALSE]
    /\ clock = 0
    /\ ops = 0
    /\ others = NameOthers
    /\ last = [op |-> "init"]
    /\ resolved = {}
    /\ lastClickedCell = <<>>
    /\ strokes = <<>>
    /\ now = OpenedAt
    /\ load = [pc |-> "idle", unsub |-> "idle", before |-> LoadedData(initialState),
               failedSubscribe |-> FALSE, opened |-> 0]
    /\ tracker = [start |-> "idle", stop |-> "idle", stream |-> FALSE,
                  timer |-> <<>>, beats |-> 0, removals |-> 0]

NextName ==
    \/ LoadProject \/ FetchResolved \/ SubscribeResolved
    \/ StartPresenceUpsert \/ StartPresenceFetched \/ StartPresenceSubscribed
    \/ UpdatePresenceName \/ SrvUpsertPresence
    \/ Heartbeat \/ HeartbeatDone \/ Tick
    \/ OtherUpsertPresence \/ DeliverPresenceEvent

SpecName == InitName /\ [][NextName]_vars

\* C37: when initializePresence is called with a real name that differs from
\* the current one, after the session was initialized and while a project is
\* loaded, the store's userName is the new name at once and, when its
\* upsertPresence has reached the server, so is the user_name of the session's
\* presence record
C37_NameReachesServer ==
    [][/\ (last'.op = "initializePresence" /\ last'.name # state.userName)
          => state'.userName = last'.name
       /\ last'.op = "srvUpsertPresence"
          => /\ state'.userName = last'.name
             /\ \E p \in server'.presence : p.session_id = last'.sessionId
             /\ \A p \in server'.presence :
                   p.session_id = last'.sessionId => p.user_name = last'.name
      ]_vars

====
